---- MODULE Spec2Model ----
(***************************************************************************)
(* Model of the eBay match-and-price engine of BaseballBinder:             *)
(* eBayService.search_card with its result cache, daily request counter,   *)
(* token cache and call log (src/ebay_service.py), the admin reset of the  *)
(* counter (src/main.py) and the two listing scorers                       *)
(* (eBayService._score_result_relevance, main.analyze_listing).            *)
(*                                                                         *)
(* Text.  A Python string is modelled as a sequence of atoms (words,       *)
(* numbers and the symbols "#" and "/"), written without the separating    *)
(* blanks: "1993 Topps Derek Jeter #98" is                                 *)
(* <<"1993","Topps","Derek","Jeter","#","98">>.  `x in title` is the       *)
(* contiguous-subsequence test on atoms, str.lower() maps every atom to    *)
(* its lower-case atom, and both None and "" are the empty sequence (the   *)
(* code only ever tests them for truth).                                   *)
(* Money is in cents.  Time is in seconds.                                 *)
(***************************************************************************)
EXTENDS Integers, Sequences, FiniteSets, TLC

VARIABLES
    today,       \* calendar day seen by datetime.now() (day index)
    now,         \* clock, in seconds
    reqFile,     \* ebay_oauth_requests.json: [date, count]
    cache,       \* table ebay_search_cache: query -> [result, expires_at, hit_count]
    tokenCache,  \* eBayService._token_cache: [access_token, expires_at]
    log,         \* table ebay_api_call_log, in insertion order
    stack,       \* call stack of search_card activations, innermost last
    outcome,     \* what the last finished top-level search_card gave its caller
    obs,         \* what the running top-level lookup did so far (calls made, ...)
    nLookups,    \* number of top-level lookups started
    sc           \* scenario of the scorer specification (input and output)

vars == <<today, now, reqFile, cache, tokenCache, log, stack, outcome, obs, nLookups, sc>>

-----------------------------------------------------------------------------
(* Bounds *)

MaxLookups == 2      \* top-level lookups per behaviour
MaxItems == 1        \* listings in one search response
MaxDay == 1          \* day rollovers per behaviour
MaxTime == 3600      \* the clock stops advancing here

-----------------------------------------------------------------------------
(* Program constants *)

daily_limit == 5000          \* eBayService.__init__
CacheTTL == 3600             \* timedelta(hours=1) in _cache_result
TokenMargin == 300           \* expires_in - 300 in _get_access_token
DefaultExpiresIn == 7200     \* token_data.get('expires_in', 7200)
min_score == 6               \* min_score=0.6, in tenths
ItemsReturned == 10          \* items[:10]

-----------------------------------------------------------------------------
(* Text *)

Empty == <<>>

Lower(w) ==
    CASE w = "Topps" -> "topps"
      [] w = "TOPPS" -> "topps"
      [] w = "Derek" -> "derek"
      [] w = "Jeter" -> "jeter"
      [] w = "JETER" -> "jeter"
      [] w = "Ken" -> "ken"
      [] w = "Griffey" -> "griffey"
      [] w = "Gold" -> "gold"
      [] w = "Refractor" -> "refractor"
      [] w = "Panini" -> "panini"
      [] w = "Donruss" -> "donruss"
      [] w = "Chrome" -> "chrome"
      [] w = "Optic" -> "optic"
      [] w = "PSA" -> "psa"
      [] w = "Lot" -> "lot"
      [] w = "Card" -> "card"
      [] w = "Baseball" -> "baseball"
      [] w = "T-Minus" -> "t-minus"
      [] w = "US" -> "us"
      [] w = "Limited" -> "limited"
      [] w = "Upper" -> "upper"
      [] w = "Deck" -> "deck"
      [] w = "Prizm" -> "prizm"
      [] OTHER -> w

LowerText(t) == [i \in DOMAIN t |-> Lower(t[i])]

\* Python `needle in hay` on strings
Contains(hay, needle) ==
    \/ needle = Empty
    \/ \E i \in 1..(Len(hay) - Len(needle) + 1) :
          SubSeq(hay, i, i + Len(needle) - 1) = needle

IsDigits(w) == w \in {"0", "1", "5", "05", "10", "25", "49", "98", "99", "1993", "1994"}

Range(s) == {s[i] : i \in DOMAIN s}

Min(a, b) == IF a < b THEN a ELSE b
Max(a, b) == IF a > b THEN a ELSE b

\* the orders in which list(a_set) can enumerate the set
Orderings(S) ==
    {s \in [1..Cardinality(S) -> S] : \A i, j \in 1..Cardinality(S) : i # j => s[i] # s[j]}

RECURSIVE FlattenTerms(_)
\* " ".join(terms)
FlattenTerms(terms) ==
    IF terms = <<>> THEN <<>> ELSE Head(terms) \o FlattenTerms(Tail(terms))

RECURSIVE UniqueTermsFrom(_, _)
UniqueTermsFrom(terms, seen) ==
    IF terms = <<>> THEN <<>>
    ELSE IF Head(terms) # Empty /\ Head(terms) \notin seen
         THEN <<Head(terms)>> \o UniqueTermsFrom(Tail(terms), seen \cup {Head(terms)})
         ELSE UniqueTermsFrom(Tail(terms), seen)

\* eBayService._unique_terms
UniqueTerms(terms) == UniqueTermsFrom(terms, {})

\* str.strip() of a manual query: blanks are the atom " "
RECURSIVE StripLeft(_)
StripLeft(t) == IF t # <<>> /\ Head(t) = " " THEN StripLeft(Tail(t)) ELSE t
RECURSIVE StripRight(_)
StripRight(t) ==
    IF t # <<>> /\ t[Len(t)] = " " THEN StripRight(SubSeq(t, 1, Len(t) - 1)) ELSE t
Strip(t) == StripRight(StripLeft(t))

-----------------------------------------------------------------------------
(* Query builder *)

PANINI_BRANDS ==
    { <<"donruss">>, <<"prizm">>, <<"select">>, <<"chronicles">>, <<"optic">>,
      <<"prestige">>, <<"contenders">>, <<"mosaic">>, <<"absolute">>, <<"crown", "royale">>,
      <<"national", "treasures">>, <<"immaculate">>, <<"flawless">>, <<"noir">>,
      <<"encased">>, <<"limited">>, <<"spectra">>, <<"phoenix">> }

\* eBayService._build_brand_terms: the set `terms`
BuildBrandTerms(brand) ==
    IF brand = Empty THEN {}
    ELSE LET lower == LowerText(brand)
             is_panini_brand == \E pb \in PANINI_BRANDS : Contains(lower, pb)
         IN  {brand}
             \cup (IF is_panini_brand /\ ~Contains(lower, <<"panini">>)
                   THEN {<<"Panini">> \o brand} ELSE {})
             \cup (IF Contains(lower, <<"donruss", "optic">>)
                   THEN {<<"Panini", "Donruss", "Optic">>, <<"Donruss", "Optic">>} ELSE {})
             \cup (IF Contains(lower, <<"topps", "chrome">>)
                   THEN {<<"Topps", "Chrome">>} ELSE {})

INSERT_SYNONYMS ==
    { <<"T-Minus">>, <<"T-Minus", "3", "2", "1">>, <<"T-Minus", "3...2...1!">>,
      <<"T", "Minus", "3", "2", "1">> }

\* eBayService._build_variety_terms: the set `terms`
BuildVarietyTerms(variety) ==
    IF variety = Empty THEN {}
    ELSE {variety} \cup (IF Contains(LowerText(variety), <<"t-minus">>)
                         THEN INSERT_SYNONYMS ELSE {})

\* re.search(r'/(\d+)$', numbered): the print run "/D", or Empty when no match
PrintRun(numbered) ==
    LET n == Len(numbered)
    IN  IF n >= 2 /\ numbered[n - 1] = "/" /\ IsDigits(numbered[n])
        THEN <<"/", numbered[n]>>
        ELSE Empty

CardNumberTerm(card_number) == <<"#">> \o card_number

\* search_card lines 573-581: the term appended for a non-empty numbered
NumberedPart(numbered) ==
    IF PrintRun(numbered) # Empty THEN PrintRun(numbered) ELSE numbered

\* query_parts of search_card for one enumeration order of the two term sets
QueryParts(a, brandTerms, varietyTerms) ==
    <<a.year, a.player_name>>
    \o brandTerms
    \o (IF a.card_number # Empty THEN <<CardNumberTerm(a.card_number)>> ELSE <<>>)
    \o (IF a.variety # Empty THEN varietyTerms ELSE <<>>)
    \o (IF a.parallel # Empty THEN <<a.parallel>> ELSE <<>>)
    \o (IF a.autograph THEN <<(<<"autograph">>)>> ELSE <<>>)
    \o (IF a.graded # Empty THEN <<a.graded>> ELSE <<>>)
    \o (IF a.numbered # Empty THEN <<NumberedPart(a.numbered)>> ELSE <<>>)

\* the query strings search_card can compute for its arguments
BuildQueries(a) ==
    IF a.manual_query # Empty
    THEN {Strip(a.manual_query)}
    ELSE {FlattenTerms(UniqueTerms(QueryParts(a, bt, vt))) :
            bt \in Orderings(BuildBrandTerms(a.brand)),
            vt \in Orderings(BuildVarietyTerms(a.variety))}

-----------------------------------------------------------------------------
(* Relevance scorer and filter of the pricing path (scores in tenths) *)

\* a scorer that gives the last-name credit without looking for the name
ScoreResultRelevanceNoSubjectCheck(item, year, brand, player_name, card_number) ==
    LET title == LowerText(item.title)
        brand_lower == LowerText(brand)
    IN  IF year # Empty /\ ~Contains(title, year) THEN 0
        ELSE IF brand_lower # Empty /\ ~Contains(title, brand_lower) THEN 0
        ELSE (IF Contains(title, LowerText(player_name)) THEN 4 ELSE 2) + 2 + 2
             + (IF card_number # Empty /\ ~Contains(title, card_number) THEN 0 ELSE 2)

\* a scorer that gives the year credit whether or not the title has the year
ScoreResultRelevanceYearOptional(item, year, brand, player_name, card_number) ==
    LET title == LowerText(item.title)
        player_lower == LowerText(player_name)
        brand_lower == LowerText(brand)
        playerFull == Contains(title, player_lower)
        playerLast == player_lower # Empty /\ Contains(title, <<player_lower[Len(player_lower)]>>)
    IN  IF ~playerFull /\ ~playerLast THEN 0
        ELSE IF brand_lower # Empty /\ ~Contains(title, brand_lower) THEN 0
        ELSE (IF playerFull THEN 4 ELSE 2) + 2 + 2
             + (IF card_number # Empty /\ ~Contains(title, card_number) THEN 0 ELSE 2)

\* a scorer that rejects a listing whose title lacks a supplied card number
ScoreResultRelevanceNumberRequired(item, year, brand, player_name, card_number) ==
    LET title == LowerText(item.title)
        player_lower == LowerText(player_name)
        brand_lower == LowerText(brand)
        playerFull == Contains(title, player_lower)
        playerLast == player_lower # Empty /\ Contains(title, <<player_lower[Len(player_lower)]>>)
    IN  IF ~playerFull /\ ~playerLast THEN 0
        ELSE IF year # Empty /\ ~Contains(title, year) THEN 0
        ELSE IF brand_lower # Empty /\ ~Contains(title, brand_lower) THEN 0
        ELSE IF card_number # Empty /\ ~Contains(title, card_number) THEN 0
        ELSE (IF playerFull THEN 4 ELSE 2) + 2 + 2 + 2

\* eBayService._score_result_relevance; 0 is the early `return 0.0`
ScoreResultRelevance(item, year, brand, player_name, card_number) ==
    LET title == LowerText(item.title)
        player_lower == LowerText(player_name)
        last_name == IF player_lower # Empty THEN <<player_lower[Len(player_lower)]>> ELSE Empty
        brand_lower == LowerText(brand)
        playerFull == Contains(title, player_lower)
        playerLast == last_name # Empty /\ Contains(title, last_name)
        numberFound == \/ Contains(title, card_number)
                       \/ Contains(title, <<"#">> \o card_number)
                       \/ Contains(title, <<"no.">> \o card_number)
                       \/ Contains(title, <<"card">> \o card_number)
    IN  IF ~playerFull /\ ~playerLast THEN 0
        ELSE IF year # Empty /\ ~Contains(title, year) THEN 0
        ELSE IF brand_lower # Empty /\ ~Contains(title, brand_lower) THEN 0
        ELSE (IF playerFull THEN 4 ELSE 2)
             + 2
             + 2
             + (IF card_number # Empty THEN (IF numberFound THEN 2 ELSE 0) ELSE 2)

RECURSIVE InsertByScore(_, _)
\* position of x in a list kept in descending score order; equal scores keep arrival order
InsertByScore(sorted, x) ==
    IF sorted = <<>> THEN <<x>>
    ELSE IF Head(sorted).score >= x.score
         THEN <<Head(sorted)>> \o InsertByScore(Tail(sorted), x)
         ELSE <<x>> \o sorted

RECURSIVE SortByScore(_)
\* list.sort(key=_relevance_score, reverse=True): stable
SortByScore(items) ==
    IF items = <<>> THEN <<>>
    ELSE InsertByScore(SortByScore(SubSeq(items, 1, Len(items) - 1)), items[Len(items)])

RECURSIVE ScoredItems(_, _, _, _, _, _)
ScoredItems(items, year, brand, player_name, card_number, minScore) ==
    IF items = <<>> THEN <<>>
    ELSE LET score == ScoreResultRelevance(Head(items), year, brand, player_name, card_number)
             rest == ScoredItems(Tail(items), year, brand, player_name, card_number, minScore)
         IN  IF score >= minScore
             THEN <<[title |-> Head(items).title, price |-> Head(items).price, score |-> score]>>
                  \o rest
             ELSE rest

\* eBayService._filter_by_relevance
FilterByRelevance(items, year, brand, player_name, card_number, minScore) ==
    SortByScore(ScoredItems(items, year, brand, player_name, card_number, minScore))

\* eBayService._filter_items on one item: TRUE when the item is kept. No code calls
\* _filter_items; search_card filters with _filter_by_relevance only.
FilterItemsKeeps(item, card_number) ==
    LET needle == SelectSeq(LowerText(card_number), LAMBDA w : w # "#")
        title == LowerText(item.title)
        multi == \E term \in {<<"pick", "your">>, <<"choose">>, <<"lot">>, <<"player", "list">>} :
                    Contains(title, term)
    IN  ~(multi /\ needle # Empty /\ ~Contains(SelectSeq(title, LAMBDA w : w # "#"), needle))

-----------------------------------------------------------------------------
(* Price aggregator *)

NonePrice == -1    \* Python None in a pricing field

RECURSIVE InsertAscending(_, _)
InsertAscending(sorted, x) ==
    IF sorted = <<>> THEN <<x>>
    ELSE IF Head(sorted) <= x
         THEN <<Head(sorted)>> \o InsertAscending(Tail(sorted), x)
         ELSE <<x>> \o sorted

RECURSIVE Sorted(_)
\* sorted(all_prices)
Sorted(prices) ==
    IF prices = <<>> THEN <<>>
    ELSE InsertAscending(Sorted(Tail(prices)), Head(prices))

RECURSIVE SumSeq(_)
SumSeq(s) == IF s = <<>> THEN 0 ELSE Head(s) + SumSeq(Tail(s))

RECURSIVE AllPrices(_)
\* the loop collecting float(price.value) of the items whose price value is truthy
AllPrices(items) ==
    IF items = <<>> THEN <<>>
    ELSE (IF Head(items).price # 0 THEN <<Head(items).price>> ELSE <<>>)
         \o AllPrices(Tail(items))

\* round(num / den, 2) on an amount in cents (no half-cent ties occur for the
\* whole-dollar prices and sample sizes used here)
RoundCents(num, den) == (2 * num + den) \div (2 * den)

\* a slice that keeps the whole list
SliceWhole(s, a, b) == s

\* Python slice s[a:b] with 0-based a, b
Slice(s, a, b) == SubSeq(s, a + 1, Min(b, Len(s)))

\* list.index(x): 0-based position of the first occurrence
IndexOf(s, x) == (CHOOSE i \in DOMAIN s : s[i] = x /\ \A j \in 1..(i - 1) : s[j] # x) - 1

EmptyPricing ==
    [min_price |-> NonePrice, max_price |-> NonePrice, avg_price |-> NonePrice,
     median_price |-> NonePrice, count |-> 0]

\* eBayService._calculate_pricing
CalculatePricing(items) ==
    LET all_prices == AllPrices(items)
        sorted_prices == Sorted(all_prices)
        n == Len(sorted_prices)
        iqr == Slice(sorted_prices, n \div 4, (3 * n) \div 4)
        representative_prices ==
            IF n < 4 THEN sorted_prices
            ELSE IF Len(iqr) < Min(10, n \div 2)
                 THEN Slice(sorted_prices, n \div 6, (5 * n) \div 6)
                 ELSE iqr
        median == IF n % 2 = 0
                  THEN RoundCents(sorted_prices[n \div 2] + sorted_prices[n \div 2 + 1], 2)
                  ELSE sorted_prices[n \div 2 + 1]
        m == Len(representative_prices)
    IN  IF all_prices = <<>> THEN EmptyPricing
        ELSE [min_price |-> sorted_prices[1],
              max_price |-> sorted_prices[n],
              avg_price |-> RoundCents(SumSeq(representative_prices), m),
              median_price |-> median,
              count |-> n,
              sample_size |-> m,
              excluded_low |-> IndexOf(sorted_prices, representative_prices[1]),
              excluded_high |-> n - (IndexOf(sorted_prices, representative_prices[m]) + 1)]

-----------------------------------------------------------------------------
(* Inputs: descriptors, listings, responses of the two external endpoints *)

Jeter == <<"Derek", "Jeter">>
Griffey == <<"Ken", "Griffey">>

BaseArgs ==
    [year |-> <<"1993">>, brand |-> <<"Topps">>, player_name |-> Jeter,
     card_number |-> <<"98">>, variety |-> Empty, parallel |-> Empty, autograph |-> FALSE,
     graded |-> Empty, numbered |-> Empty, card_id |-> 1, manual_query |-> Empty,
     is_broadening |-> FALSE]

\* the arguments callers pass to search_card (the _is_broadening flag is never passed)
Descriptors ==
    { [BaseArgs EXCEPT !.parallel = <<"Refractor">>, !.numbered = <<"05", "/", "49">>],
      [BaseArgs EXCEPT !.variety = <<"Gold">>],
      [BaseArgs EXCEPT !.manual_query = <<"rookie">>],
      [BaseArgs EXCEPT !.player_name = Griffey, !.card_number = Empty, !.card_id = 2,
                       !.manual_query = <<" ", "rookie", " ">>] }

ListingJeter == [title |-> <<"1993", "TOPPS", "Derek", "Jeter", "#", "98">>, price |-> 1000]
ListingGriffey == [title |-> <<"1993", "Topps", "Ken", "Griffey">>, price |-> 2000]

Listings == {ListingJeter, ListingGriffey}

SeqsUpTo(S, n) == UNION {[1..k -> S] : k \in 0..n}

\* bodies of a 200 answer of the search endpoint: itemSummaries and total
SearchBodies == {[items |-> s, total |-> Len(s)] : s \in SeqsUpTo(Listings, MaxItems)}

\* outcomes of requests.get on the search endpoint
SearchOutcomes ==
    {[kind |-> "network"], [kind |-> "status", status |-> 429], [kind |-> "status", status |-> 500]}
    \cup {[kind |-> "status", status |-> 200, body |-> b] : b \in SearchBodies}

\* outcomes of requests.post on the token endpoint, as _get_access_token sees them
TokenOutcomes ==
    { [ok |-> TRUE, expires_in |-> DefaultExpiresIn],
      [ok |-> FALSE, error |-> <<"Token request error:", "Rate limit exceeded (HTTP 429)">>],
      [ok |-> FALSE, error |-> <<"Failed to get access token:", "network">>],
      [ok |-> FALSE, error |-> <<"Failed to get access token:", "HTTP 500">>],
      [ok |-> FALSE, error |-> <<"Token request error:", "No access token in response">>] }

-----------------------------------------------------------------------------
(* Rate governor *)

\* eBayService._get_request_count
GetRequestCount(file, day) == IF file.date = day THEN file.count ELSE 0

\* eBayService._increment_request_count
IncrementRequestCount(file, day) == [date |-> day, count |-> GetRequestCount(file, day) + 1]

RateLimitMessage == <<"Daily rate limit reached">>

CanMakeRequestOffByOne(count) == ~(count > daily_limit)

\* eBayService._can_make_request: the `allowed` component
CanMakeRequest(count) == ~(count >= daily_limit)

-----------------------------------------------------------------------------
(* Cache, call log, results *)

NoCache == [q \in {} |-> 0]

CacheHitTwice(entry) == [entry EXCEPT !.hit_count = @ + 2]

\* _get_cached_result: cache_entry.hit_count += 1
CacheHit(entry) == [entry EXCEPT !.hit_count = @ + 1]

\* _get_cached_result: expires_at > now
CacheFresh(entry, t) == entry.expires_at > t

\* _cache_result: delete the entry of the query, add the new one
CacheResult(c, query, result, t) ==
    [q \in (DOMAIN c) \cup {query} |->
        IF q = query
        THEN [result |-> result, expires_at |-> t + CacheTTL, hit_count |-> 0]
        ELSE c[q]]

\* _get_cached_result: db.delete(cache_entry)
CacheDelete(c, query) == [q \in (DOMAIN c) \ {query} |-> c[q]]

\* _log_api_call: the row added to ebay_api_call_log
LogEntry(query, card_id, response_status, items_returned, cache_hit, success, error_message) ==
    [search_query |-> query, card_id |-> card_id, response_status |-> response_status,
     items_returned |-> items_returned, cache_hit |-> cache_hit, success |-> success,
     error_message |-> error_message]

\* search_card: the result dict of the zero-listing path
EmptyResult(query) ==
    [search_query |-> query, total_results |-> 0, items |-> <<>>, pricing |-> EmptyPricing]

\* search_card: the result dict of the success path
FoundResult(query, total, items) ==
    [search_query |-> query, total_results |-> total,
     items |-> Slice(items, 0, ItemsReturned), pricing |-> CalculatePricing(items)]

NoteRemovedPrintRun == <<"(broadened: removed print run)">>
NoteRemovedVariety == <<"(broadened: removed variety/parallel)">>

AnnotateNothing(result, note) == result

\* search_card: broader_result['search_query'] += note
Annotate(result, note) == [result EXCEPT !.search_query = @ \o note]

-----------------------------------------------------------------------------
(* Broadening controller *)

MayBroadenAlways(a) == TRUE

\* search_card: `if not _is_broadening`
MayBroaden(a) == ~a.is_broadening

\* Python truth of broader_result: None is false, a result dict (never empty) is true
NotBroaderResult(broader) == broader.kind = "none"

BroadenArgs1NoNumber(a) ==
    [a EXCEPT !.numbered = Empty, !.card_number = Empty, !.manual_query = Empty,
              !.is_broadening = TRUE]

\* search_card, strategy 1: the arguments of the retry without the print run
BroadenArgs1(a) ==
    [a EXCEPT !.numbered = Empty, !.manual_query = Empty, !.is_broadening = TRUE]

\* search_card, strategy 2: the arguments of the retry without variety and parallel
BroadenArgs2(a) ==
    [a EXCEPT !.variety = Empty, !.parallel = Empty, !.numbered = Empty,
              !.manual_query = Empty, !.is_broadening = TRUE]

-----------------------------------------------------------------------------
(* State *)

NoneTime == -1     \* Python None in _token_cache['expires_at']

NoRet == [kind |-> "none"]
RetResult(r) == [kind |-> "result", result |-> r]
RetError(e) == [kind |-> "error", error |-> e]

NoOutcome == [ret |-> NoRet]

NoScenario == [phase |-> "off"]

\* one activation of search_card
Frame(a, query) == [a |-> a, query |-> query, pc |-> "cache", ret |-> NoRet]

Top == stack[Len(stack)]
SetTop(f) == [stack EXCEPT ![Len(stack)] = f]
Done(f, ret) == [f EXCEPT !.pc = "done", !.ret = ret]

Idle == stack = <<>>

-----------------------------------------------------------------------------
(* Store failures and replay of external answers, used by the scenario of SpecStore *)

\* the reads of these queries fail (SessionLocal or the query raises)
ReadFails(q) == sc.phase = "replay" /\ q \in sc.unreadable

\* whether one write to the cache table or to the call log fails
StoreFaults == IF sc.phase = "replay" THEN BOOLEAN ELSE {FALSE}

NoteFaults(s, kinds) == IF s.phase = "replay" THEN [s EXCEPT !.failed = @ \cup kinds] ELSE s

\* the external answers of the reference run are given again to the run with failures
Choices(S) ==
    IF sc.phase = "replay" /\ sc.tape # <<>> /\ Head(sc.tape) \in S THEN {Head(sc.tape)} ELSE S

Taped(s, o) ==
    IF s.phase = "ref" THEN [s EXCEPT !.tape = Append(@, o)]
    ELSE IF s.phase = "replay"
    THEN [s EXCEPT !.tape = IF @ = <<>> THEN @ ELSE Tail(@),
                   !.diverged = @ \/ s.tape = <<>> \/ Head(s.tape) # o]
    ELSE s

\* _log_api_call lines 430-452: the row is added unless the database raises
LogApiCall(l, entry, fails) == IF fails THEN l ELSE Append(l, entry)

\* _cache_result lines 393-420: the entry is replaced unless the database raises
CacheResultBestEffort(c, query, result, t, fails) ==
    IF fails THEN c ELSE CacheResult(c, query, result, t)

\* a store failure that reaches search_card as an exception
StoreFailureRaised(frame, failed) ==
    IF failed THEN Done(frame, RetError(<<"Search error:", "database">>)) ELSE frame

\* the except clauses of _get_cached_result, _cache_result and _log_api_call:
\* the failure is written to the logger and the caller goes on
BestEffort(frame, failed) == frame

InitCounts == {daily_limit - 1}

Init ==
    /\ today = 0
    /\ now = 0
    /\ reqFile \in {[date |-> 0, count |-> c] : c \in InitCounts}
    /\ cache = NoCache
    /\ tokenCache = [access_token |-> "None", expires_at |-> NoneTime]
    /\ log = <<>>
    /\ stack = <<>>
    /\ outcome = NoOutcome
    /\ obs = [prev |-> NoOutcome, quiet |-> FALSE, file0 |-> [date |-> 0, count |-> 0],
              cache0 |-> NoCache, token0 |-> [access_token |-> "None", expires_at |-> NoneTime],
              log0 |-> 0, calls |-> <<>>, tokenRequests |-> 0, retries |-> 0, maxDepth |-> 0,
              inner |-> <<>>]
    /\ nLookups = 0
    /\ sc = NoScenario

-----------------------------------------------------------------------------
(* search_card, step by step *)

\* a caller invokes search_card(d): the query is computed and the frame entered
Lookup(d) ==
    /\ Idle
    /\ nLookups < MaxLookups
    /\ \E q \in BuildQueries(d) :
          stack' = <<Frame(d, q)>>
    /\ nLookups' = nLookups + 1
    /\ obs' = [prev |-> IF obs.quiet THEN outcome ELSE NoOutcome, quiet |-> FALSE,
               file0 |-> reqFile, cache0 |-> cache, token0 |-> tokenCache, log0 |-> Len(log),
               calls |-> <<>>, tokenRequests |-> 0, retries |-> 0, maxDepth |-> 1,
               inner |-> <<>>]
    /\ UNCHANGED <<today, now, reqFile, cache, tokenCache, log, outcome, sc>>

\* search_card lines 588-602 with _get_cached_result
CacheCheck ==
    /\ ~Idle
    /\ Top.pc = "cache"
    /\ LET f == Top
           q == f.query
       IN  IF ReadFails(q)
           THEN \* _get_cached_result lines 384-386: nothing is committed, None is returned
                /\ cache' = cache
                /\ log' = log
                /\ stack' = SetTop(BestEffort([f EXCEPT !.pc = "rate"], TRUE))
                /\ sc' = NoteFaults(sc, {"read"})
           ELSE IF q \in DOMAIN cache /\ CacheFresh(cache[q], now)
           THEN \E lf \in StoreFaults :
                   /\ cache' = [cache EXCEPT ![q] = CacheHit(@)]
                   /\ log' = LogApiCall(log, LogEntry(q, f.a.card_id, 200,
                                           cache[q].result.total_results, TRUE, TRUE, Empty), lf)
                   /\ stack' = SetTop(BestEffort(Done(f, RetResult(cache[q].result)), lf))
                   /\ sc' = NoteFaults(sc, IF lf THEN {"log"} ELSE {})
           ELSE /\ cache' = IF q \in DOMAIN cache THEN CacheDelete(cache, q) ELSE cache
                /\ log' = log
                /\ stack' = SetTop([f EXCEPT !.pc = "rate"])
                /\ sc' = sc
    /\ UNCHANGED <<today, now, reqFile, tokenCache, outcome, obs, nLookups>>

\* search_card lines 604-622 with _can_make_request
RateCheck ==
    /\ ~Idle
    /\ Top.pc = "rate"
    /\ LET f == Top
       IN  IF CanMakeRequest(GetRequestCount(reqFile, today))
           THEN /\ stack' = SetTop([f EXCEPT !.pc = "token"])
                /\ log' = log
                /\ sc' = sc
           ELSE \E lf \in StoreFaults :
                   /\ log' = LogApiCall(log, LogEntry(f.query, f.a.card_id, 429, 0, FALSE, FALSE,
                                                      RateLimitMessage), lf)
                   /\ stack' = SetTop(BestEffort(Done(f, RetError(RateLimitMessage)), lf))
                   /\ sc' = NoteFaults(sc, IF lf THEN {"log"} ELSE {})
    /\ UNCHANGED <<today, now, reqFile, cache, tokenCache, outcome, obs, nLookups>>

\* a validity test that still accepts the token at the instant of its expiry
TokenValidAtExpiry(tc, t) ==
    tc.access_token # "None" /\ tc.expires_at # NoneTime /\ t <= tc.expires_at

\* _get_access_token: the cached token is still valid
TokenValid(tc, t) == tc.access_token # "None" /\ tc.expires_at # NoneTime /\ t < tc.expires_at

\* a token step that goes on to the search call after a failed token request
GetTokenIgnoringFailure ==
    /\ ~Idle
    /\ Top.pc = "token"
    /\ LET f == Top
       IN  IF TokenValid(tokenCache, now)
           THEN /\ stack' = SetTop([f EXCEPT !.pc = "http"])
                /\ UNCHANGED <<tokenCache, obs, sc>>
           ELSE /\ obs' = [obs EXCEPT !.tokenRequests = @ + 1]
                /\ \E o \in Choices(TokenOutcomes) :
                      /\ tokenCache' = IF o.ok
                                       THEN [access_token |-> "token",
                                             expires_at |-> now + o.expires_in - TokenMargin]
                                       ELSE tokenCache
                      /\ stack' = SetTop([f EXCEPT !.pc = "http"])
                      /\ sc' = Taped(sc, o)
    /\ UNCHANGED <<today, now, reqFile, cache, log, outcome, nLookups>>

\* search_card line 625 with _get_access_token
GetToken ==
    /\ ~Idle
    /\ Top.pc = "token"
    /\ LET f == Top
       IN  IF TokenValid(tokenCache, now)
           THEN /\ stack' = SetTop([f EXCEPT !.pc = "http"])
                /\ UNCHANGED <<tokenCache, obs, sc>>
           ELSE /\ obs' = [obs EXCEPT !.tokenRequests = @ + 1]
                /\ \E o \in Choices(TokenOutcomes) :
                      /\ IF o.ok
                         THEN /\ tokenCache' = [access_token |-> "token",
                                                expires_at |-> now + o.expires_in - TokenMargin]
                              /\ stack' = SetTop([f EXCEPT !.pc = "http"])
                         ELSE /\ tokenCache' = tokenCache
                              /\ stack' = SetTop(Done(f, RetError(o.error)))
                      /\ sc' = Taped(sc, o)
    /\ UNCHANGED <<today, now, reqFile, cache, log, outcome, nLookups>>

\* search_card lines 731-759: the empty result is logged and returned (it is not cached)
EmptyTail(below, f, o1, s1) ==
    \E lf \in StoreFaults :
       /\ stack' = below \o <<BestEffort(Done(f, RetResult(EmptyResult(f.query))), lf)>>
       /\ log' = LogApiCall(log, LogEntry(f.query, f.a.card_id, 200, 0, FALSE, TRUE, Empty), lf)
       /\ obs' = o1
       /\ sc' = NoteFaults(s1, IF lf THEN {"log"} ELSE {})

\* search_card lines 712-724: strategy 2, or the empty result
ZeroListingsFrom2(below, f, broader, o1, s1) ==
    IF MayBroaden(f.a) /\ (f.a.variety # Empty \/ f.a.parallel # Empty) /\ NotBroaderResult(broader)
    THEN /\ \E q \in BuildQueries(BroadenArgs2(f.a)) :
              stack' = below \o <<[f EXCEPT !.pc = "s2"], Frame(BroadenArgs2(f.a), q)>>
         /\ log' = log
         /\ obs' = [o1 EXCEPT !.retries = @ + 1, !.maxDepth = Max(@, Len(below) + 2)]
         /\ sc' = s1
    ELSE EmptyTail(below, f, o1, s1)

\* search_card lines 690-710: no listing was accepted; strategy 1 first
ZeroListings(below, f, broader, o1, s1) ==
    IF MayBroaden(f.a) /\ f.a.numbered # Empty /\ NotBroaderResult(broader)
    THEN /\ \E q \in BuildQueries(BroadenArgs1(f.a)) :
              stack' = below \o <<[f EXCEPT !.pc = "s1"], Frame(BroadenArgs1(f.a), q)>>
         /\ log' = log
         /\ obs' = [o1 EXCEPT !.retries = @ + 1, !.maxDepth = Max(@, Len(below) + 2)]
         /\ sc' = s1
    ELSE ZeroListingsFrom2(below, f, broader, o1, s1)

\* search_card lines 627-690 and 761-827: the external search call and what follows it
HttpCall ==
    /\ ~Idle
    /\ Top.pc = "http"
    /\ \E o \in Choices(SearchOutcomes) :
          LET f == Top
              a == f.a
              q == f.query
              below == SubSeq(stack, 1, Len(stack) - 1)
              o1 == [obs EXCEPT !.calls =
                        Append(@, [query |-> q, count |-> GetRequestCount(reqFile, today)])]
              s1 == Taped(sc, o)
          IN  IF o.kind = "network"
              THEN \* requests.get raises: except RequestException
                   \E lf \in StoreFaults :
                      /\ reqFile' = reqFile
                      /\ cache' = cache
                      /\ log' = LogApiCall(log, LogEntry(q, a.card_id, 0, 0, FALSE, FALSE,
                                                         <<"network">>), lf)
                      /\ stack' = SetTop(BestEffort(
                                     Done(f, RetError(<<"Search failed:", "network">>)), lf))
                      /\ obs' = o1
                      /\ sc' = NoteFaults(s1, IF lf THEN {"log"} ELSE {})
              ELSE /\ reqFile' = IncrementRequestCount(reqFile, today)
                   /\ IF o.status = 429
                      THEN \* logged at line 659, raised, caught by `except Exception`, logged again
                           \E lf \in StoreFaults, lf2 \in StoreFaults :
                              /\ cache' = cache
                              /\ log' = LogApiCall(
                                          LogApiCall(log,
                                             LogEntry(q, a.card_id, 429, 0, FALSE, FALSE,
                                                      <<"Rate limit exceeded">>), lf),
                                          LogEntry(q, a.card_id, 0, 0, FALSE, FALSE,
                                                   <<"Rate limit exceeded (HTTP 429)">>), lf2)
                              /\ stack' = SetTop(BestEffort(Done(f, RetError(
                                     <<"Search error:", "Rate limit exceeded (HTTP 429)">>)),
                                     lf \/ lf2))
                              /\ obs' = o1
                              /\ sc' = NoteFaults(s1, IF lf \/ lf2 THEN {"log"} ELSE {})
                      ELSE IF o.status # 200
                      THEN \* raise_for_status: except RequestException
                           \E lf \in StoreFaults :
                              /\ cache' = cache
                              /\ log' = LogApiCall(log, LogEntry(q, a.card_id, 0, 0, FALSE, FALSE,
                                                                 <<"HTTPError">>), lf)
                              /\ stack' = SetTop(BestEffort(
                                     Done(f, RetError(<<"Search failed:", "HTTPError">>)), lf))
                              /\ obs' = o1
                              /\ sc' = NoteFaults(s1, IF lf THEN {"log"} ELSE {})
                      ELSE LET items == IF o.body.items # <<>>
                                        THEN FilterByRelevance(o.body.items, a.year, a.brand,
                                                 a.player_name, a.card_number, min_score)
                                        ELSE <<>>
                               result == FoundResult(q, o.body.total, items)
                           IN  IF items = <<>>
                               THEN /\ cache' = cache
                                    /\ ZeroListings(below, f, NoRet, o1, s1)
                               ELSE \E wf \in StoreFaults, lf \in StoreFaults :
                                       /\ cache' = CacheResultBestEffort(cache, q, result, now, wf)
                                       /\ log' = LogApiCall(log, LogEntry(q, a.card_id, 200,
                                                           o.body.total, FALSE, TRUE, Empty), lf)
                                       /\ stack' = SetTop(BestEffort(Done(f, RetResult(result)),
                                                                     wf \/ lf))
                                       /\ obs' = o1
                                       /\ sc' = NoteFaults(s1,
                                                   (IF wf THEN {"write"} ELSE {}) \cup
                                                   (IF lf THEN {"log"} ELSE {}))
    /\ UNCHANGED <<today, now, tokenCache, outcome, nLookups>>

\* a broadening retry returns (or raises) into the search_card that called it,
\* lines 702-724 and the handler at lines 813-827
Return ==
    /\ Len(stack) >= 2
    /\ Top.pc = "done"
    /\ LET inner == Top
           caller == stack[Len(stack) - 1]
           below == SubSeq(stack, 1, Len(stack) - 2)
           o1 == [obs EXCEPT !.inner = Append(@, [via |-> caller.pc, depth |-> Len(stack),
                                                  ret |-> inner.ret])]
       IN  IF inner.ret.kind = "error"
           THEN \E lf \in StoreFaults :
                   /\ log' = LogApiCall(log, LogEntry(caller.query, caller.a.card_id, 0, 0,
                                                      FALSE, FALSE, inner.ret.error), lf)
                   /\ stack' = below \o
                         <<BestEffort(Done(caller, RetError(<<"Search error:">> \o inner.ret.error)),
                                      lf)>>
                   /\ obs' = o1
                   /\ sc' = NoteFaults(sc, IF lf THEN {"log"} ELSE {})
           ELSE IF inner.ret.result.total_results > 0
           THEN /\ stack' = below \o
                      <<Done(caller, RetResult(Annotate(inner.ret.result,
                            IF caller.pc = "s1" THEN NoteRemovedPrintRun
                                                ELSE NoteRemovedVariety)))>>
                /\ log' = log
                /\ obs' = o1
                /\ sc' = sc
           ELSE IF caller.pc = "s1"
           THEN ZeroListingsFrom2(below, caller, inner.ret, o1, sc)
           ELSE EmptyTail(below, caller, o1, sc)
    /\ UNCHANGED <<today, now, reqFile, cache, tokenCache, outcome, nLookups>>

\* the top-level search_card returns to (or raises into) its caller
Finish ==
    /\ Len(stack) = 1
    /\ Top.pc = "done"
    /\ outcome' = [ret |-> Top.ret, a |-> Top.a, query |-> Top.query]
    /\ stack' = <<>>
    /\ obs' = [obs EXCEPT !.quiet = TRUE]
    /\ UNCHANGED <<today, now, reqFile, cache, tokenCache, log, nLookups, sc>>

-----------------------------------------------------------------------------
(* Environment and administration *)

TimeSteps == {3600}

\* time passes between two lookups
Advance ==
    /\ Idle
    /\ \E d \in TimeSteps : now + d <= MaxTime /\ now' = now + d
    /\ obs' = [obs EXCEPT !.quiet = FALSE]
    /\ UNCHANGED <<today, reqFile, cache, tokenCache, log, stack, outcome, nLookups, sc>>

\* midnight passes between two lookups
DayRollover ==
    /\ Idle
    /\ today < MaxDay
    /\ today' = today + 1
    /\ obs' = [obs EXCEPT !.quiet = FALSE]
    /\ UNCHANGED <<now, reqFile, cache, tokenCache, log, stack, outcome, nLookups, sc>>

\* main.reset_rate_limit
ResetRateLimit ==
    /\ Idle
    /\ reqFile' = [date |-> today, count |-> 0]
    /\ obs' = [obs EXCEPT !.quiet = FALSE]
    /\ UNCHANGED <<today, now, cache, tokenCache, log, stack, outcome, nLookups, sc>>

Next ==
    \/ \E d \in Descriptors : Lookup(d)
    \/ CacheCheck
    \/ RateCheck
    \/ GetToken
    \/ HttpCall
    \/ Return
    \/ Finish
    \/ Advance
    \/ DayRollover
    \/ ResetRateLimit

Spec == Init /\ [][Next]_vars

-----------------------------------------------------------------------------
(* Properties of the lookup *)

\* the top-level search_card of the running or last lookup
Running == ~Idle
Finished == Idle /\ obs.quiet
TopArgs == IF Idle THEN outcome.a ELSE stack[1].a
TopQuery == IF Idle THEN outcome.query ELSE stack[1].query
TopRet == IF Idle THEN outcome.ret ELSE (IF stack[1].pc = "done" THEN stack[1].ret ELSE NoRet)

\* counter value and cache entry the lookup found when it started
CountAtStart == GetRequestCount(obs.file0, today)
HitAtStart == TopQuery \in DOMAIN obs.cache0 /\ CacheFresh(obs.cache0[TopQuery], now)

\* C1: once the daily counter has reached the quota, a lookup whose query has no valid
\* cache entry ends with the rate-limit error, and from its start to its end no token
\* request and no external search call is made and the counter file is not written.
C1_RateLimitRefusal ==
    ((Running \/ Finished) /\ CountAtStart >= daily_limit /\ ~HitAtStart) =>
        /\ obs.calls = <<>>
        /\ obs.tokenRequests = 0
        /\ tokenCache = obs.token0
        /\ reqFile = obs.file0
        /\ Len(stack) <= 1
        /\ Running => stack[1].pc \in {"cache", "rate", "done"}
        /\ TopRet.kind # "none" => TopRet = RetError(RateLimitMessage)

C1_Witness ==
    /\ Finished
    /\ CountAtStart >= daily_limit
    /\ ~HitAtStart
    /\ outcome.ret = RetError(RateLimitMessage)
    /\ log[Len(log)].response_status = 429

\* C2: the daily counter never exceeds the quota, and every external search call was
\* started with the counter strictly below the quota; a cache hit is served without
\* that check.
C2_CounterWithinQuota ==
    /\ reqFile.count <= daily_limit
    /\ GetRequestCount(reqFile, today) <= daily_limit
    /\ \A i \in DOMAIN obs.calls : obs.calls[i].count < daily_limit

C2_Witness ==
    /\ Finished
    /\ GetRequestCount(reqFile, today) = daily_limit
    /\ CountAtStart = daily_limit
    /\ HitAtStart
    /\ outcome.ret.kind = "result"
    /\ nLookups = 2

C4_SecondLookupFromCache ==
    (Finished /\ obs.prev.ret.kind = "result" /\ obs.prev.a = outcome.a) =>
        /\ outcome.ret.kind = "result"
        /\ outcome.ret.result.pricing = obs.prev.ret.result.pricing
        /\ obs.calls = <<>>
        /\ reqFile = obs.file0
        /\ Len(log) > obs.log0
        /\ \A i \in (obs.log0 + 1)..Len(log) : log[i].cache_hit

\* C5 (as claimed): every finished top-level lookup has added exactly one record to the
\* call log.
C5_OneLogRecordPerLookup ==
    Finished => Len(log) = obs.log0 + 1

\* the title carries the subject (or its last name), and the year and brand when supplied
TitleMatchesDescriptor(title, a) ==
    LET t == LowerText(title)
        player == LowerText(a.player_name)
    IN  /\ \/ Contains(t, player)
           \/ (player # Empty /\ Contains(t, <<player[Len(player)]>>))
        /\ a.year # Empty => Contains(t, a.year)
        /\ a.brand # Empty => Contains(t, LowerText(a.brand))

LookupStep == CacheCheck \/ RateCheck \/ GetToken \/ HttpCall \/ Return \/ Finish

\* a measure of the work a running lookup has left: the position of each activation,
\* the outermost one weighing more than anything a retry can still do
PcRank(depth, pc) ==
    IF depth = 1
    THEN CASE pc = "cache" -> 33 [] pc = "rate" -> 32 [] pc = "token" -> 31 [] pc = "http" -> 30
           [] pc = "s1" -> 20 [] pc = "s2" -> 10 [] OTHER -> 1
    ELSE CASE pc = "cache" -> 6 [] pc = "rate" -> 5 [] pc = "token" -> 4 [] pc = "http" -> 3
           [] pc = "s1" -> 3 [] pc = "s2" -> 3 [] OTHER -> 1

RECURSIVE RankFrom(_)
RankFrom(i) == IF i > Len(stack) THEN 0 ELSE PcRank(i, stack[i].pc) + RankFrom(i + 1)

Rank == RankFrom(1)

RECURSIVE RankFromNext(_)
RankFromNext(i) == IF i > Len(stack') THEN 0 ELSE PcRank(i, stack'[i].pc) + RankFromNext(i + 1)

BoundedBroadening ==
    /\ obs.retries <= 2
    /\ Len(obs.calls) <= 3
    /\ Len(stack) <= 2
    /\ \A i \in DOMAIN stack :
          /\ stack[i].a.is_broadening <=> i >= 2
          /\ i >= 2 => stack[i].pc \notin {"s1", "s2"}
    /\ Running => ENABLED LookupStep

\* C7: within one lookup the retries run one at a time, there are at most 2 of them and at
\* most 3 external search calls, a retry never broadens further, and the lookup terminates:
\* a running lookup can always take a step and every step lowers a non-negative measure.
C7_BoundedBroadening ==
    /\ []BoundedBroadening
    /\ [][Running => RankFromNext(1) < Rank]_vars

C7_Witness ==
    /\ Finished
    /\ obs.retries >= 1
    /\ Len(obs.calls) = 2
    /\ obs.maxDepth = 2
    /\ outcome.ret.kind = "result"

\* the atoms of the terms that broadening may drop from the query of descriptor a
RemovableAtoms(a) ==
    Range(a.numbered) \cup Range(PrintRun(a.numbered)) \cup Range(a.parallel)
    \cup UNION {Range(t) : t \in BuildVarietyTerms(a.variety)}

\* C8: in a lookup whose query is built from the descriptor, every external search query
\* (the first and every retry) contains "#<card_number>" when the descriptor has a card
\* number, and a retry's query differs from the first only by dropped print-run, variety
\* and parallel terms.
C8_CardNumberKept ==
    ((Running \/ Finished) /\ TopArgs.manual_query = Empty) =>
        \A i \in DOMAIN obs.calls :
            /\ TopArgs.card_number # Empty =>
                  Contains(obs.calls[i].query, CardNumberTerm(TopArgs.card_number))
            /\ Range(obs.calls[i].query) \subseteq Range(obs.calls[1].query)
            /\ (Range(obs.calls[1].query) \ Range(obs.calls[i].query))
                  \subseteq RemovableAtoms(TopArgs)

C8_Witness ==
    /\ Finished
    /\ TopArgs.manual_query = Empty
    /\ TopArgs.card_number # Empty
    /\ Len(obs.calls) = 2
    /\ obs.calls[2].query # obs.calls[1].query
    /\ Contains(obs.calls[2].query, CardNumberTerm(TopArgs.card_number))

HasNote(result) ==
    \/ Contains(result.search_query, NoteRemovedPrintRun)
    \/ Contains(result.search_query, NoteRemovedVariety)

\* the retry without the print run returned a result with at least one accepted listing
PrintRunRetryFound ==
    /\ obs.inner # <<>>
    /\ obs.inner[1].via = "s1"
    /\ obs.inner[1].depth = 2
    /\ obs.inner[1].ret.kind = "result"
    /\ obs.inner[1].ret.result.items # <<>>

-----------------------------------------------------------------------------
(* Listing scorer of the image search (src/main.py), scores 0..100 *)

MULTI_LISTING_PHRASES ==
    { <<"pick", "your">>, <<"pick/card">>, <<"choose", "your">>, <<"player", "break">>,
      <<"team", "break">>, <<"case", "break">>, <<"sealed", "case">>, <<"hobby", "box">>,
      <<"blaster", "box">>, <<"factory", "box">>, <<"factory", "sealed">>,
      <<"complete", "set">>, <<"lot", "of">>, <<"lot-">>, <<"random", "team">>,
      <<"group", "break">>, <<"mystery", "pack">>, <<"team", "pack">> }

GENERIC_EXCLUDE_PHRASES ==
    { <<"custom", "card">>, <<"reprint">>, <<"mystery", "redemption">>, <<"digital", "only">>,
      <<"nft">> }

GRADE_KEYWORDS ==
    { <<"psa">>, <<"bgs">>, <<"sgc">>, <<"cgc">>, <<"beckett">>, <<"bvg">>, <<"gm">>, <<"csg">> }

AUTOGRAPH_KEYWORDS == { <<"auto">>, <<"autograph">>, <<"sig">>, <<"signature">>, <<"signed">> }

\* value.replace("-", " ").split() on one atom
HyphenWords(w) == IF w = "T-Minus" THEN <<"T", "Minus">> ELSE <<w>>

\* main.format_numbered_term; Empty is None
FormatNumberedTerm(value) ==
    LET n == Len(value)
        slashes == {i \in DOMAIN value : value[i] = "/"}
        lastSlash == CHOOSE i \in slashes : \A j \in slashes : j <= i
        digits == SelectSeq(value, IsDigits)
    IN  IF value = Empty THEN Empty
        ELSE IF slashes # {} /\ lastSlash = n - 1 /\ IsDigits(value[n])
        THEN <<"/", value[n]>>
        ELSE IF digits # <<>> THEN <<"/">> \o digits
        ELSE Empty

IMAGE_SEARCH_STRATEGIES ==
    [strict |-> <<"player", "year", "set", "variety", "parallel", "numbered_term",
                  "grade_term", "autograph_term">>,
     focused |-> <<"player", "year", "set", "variety", "numbered_term">>,
     broad |-> <<"player", "set", "year">>]

\* main._resolve_component; the card fields carry the names of the search_card arguments
ResolveComponent(card, key) ==
    CASE key = "player" -> card.player_name
      [] key = "year" -> card.year
      [] key = "set" -> card.brand
      [] key = "variety" -> card.variety
      [] key = "parallel" -> card.parallel
      [] key = "numbered_term" -> FormatNumberedTerm(card.numbered)
      [] key = "grade_term" -> card.graded
      [] key = "autograph_term" -> IF card.autograph THEN <<"autograph">> ELSE Empty
      [] OTHER -> Empty

\* main.build_query_for_strategy: the parts, before " ".join
StrategyParts(card, strategy_key) ==
    LET components == IF strategy_key \in DOMAIN IMAGE_SEARCH_STRATEGIES
                      THEN IMAGE_SEARCH_STRATEGIES[strategy_key]
                      ELSE IMAGE_SEARCH_STRATEGIES["strict"]
        values == [i \in DOMAIN components |-> Strip(ResolveComponent(card, components[i]))]
    IN  SelectSeq(values, LAMBDA v : v # Empty)

\* main.build_query_for_strategy
BuildQueryForStrategy(card, strategy_key) == FlattenTerms(StrategyParts(card, strategy_key))

\* main.tokenize_terms: the tokens, as a set of texts
TokenizeTerms(value) ==
    IF value = Empty THEN {}
    ELSE {<<Lower(w)>> : w \in UNION {Range(HyphenWords(value[i])) : i \in DOMAIN value}}
         \cup {LowerText(value)}

\* a context that looks for any grading keyword when the card has no grade
BuildCardContextAnyGrade(card) ==
    [player_tokens |-> TokenizeTerms(card.player_name),
     year |-> LowerText(card.year),
     set_terms |-> TokenizeTerms(card.brand),
     variety_terms |-> TokenizeTerms(card.variety),
     parallel_terms |-> TokenizeTerms(card.parallel),
     numbered_term |-> LowerText(FormatNumberedTerm(card.numbered)),
     grade_terms |-> IF card.graded = Empty THEN GRADE_KEYWORDS ELSE TokenizeTerms(card.graded),
     autograph |-> card.autograph]

\* main.build_card_context; the card fields carry the names of the search_card arguments
\* (player = player_name, set_name = brand)
BuildCardContext(card) ==
    [player_tokens |-> TokenizeTerms(card.player_name),
     year |-> LowerText(card.year),
     set_terms |-> TokenizeTerms(card.brand),
     variety_terms |-> TokenizeTerms(card.variety),
     parallel_terms |-> TokenizeTerms(card.parallel),
     numbered_term |-> LowerText(FormatNumberedTerm(card.numbered)),
     grade_terms |-> TokenizeTerms(card.graded),
     autograph |-> card.autograph]

\* main.looks_like_multi_listing
LooksLikeMultiListing(title_lower) == \E phrase \in MULTI_LISTING_PHRASES : Contains(title_lower, phrase)

\* main.default_filters_for_card
DefaultFiltersForCard(card) ==
    [require_player |-> TRUE, require_year |-> card.year # Empty,
     require_set |-> card.brand # Empty, require_single_card |-> TRUE,
     require_numbering |-> FormatNumberedTerm(card.numbered) # Empty,
     require_grade |-> card.graded # Empty, exclude_phrases |-> {}]

\* main.analyze_listing
AnalyzeListing(item, filters, context) ==
    LET title == LowerText(item.title)
        player_tokens == context.player_tokens
        player_match == \A token \in player_tokens : Contains(title, token)
        year_value == context.year
        year_match == year_value # Empty /\ Contains(title, year_value)
        set_terms == context.set_terms
        set_match == IF set_terms # {} THEN \E term \in set_terms : Contains(title, term) ELSE TRUE
        variety_match == \E term \in context.variety_terms : Contains(title, term)
        parallel_match == \E term \in context.parallel_terms : Contains(title, term)
        numbered_term == context.numbered_term
        variations == {numbered_term, <<"#">> \o numbered_term}
        numbering_match == numbered_term # Empty /\ \E var \in variations : Contains(title, var)
        grade_terms == IF context.grade_terms # {} THEN context.grade_terms ELSE GRADE_KEYWORDS
        grade_match == \E term \in grade_terms : Contains(title, term)
        auto_match == \E term \in AUTOGRAPH_KEYWORDS : Contains(title, term)
        combined_excludes == GENERIC_EXCLUDE_PHRASES \cup {LowerText(ph) : ph \in filters.exclude_phrases}
        facets ==
            <<[on |-> player_match /\ player_tokens # {}, term |-> "player", w |-> 35],
              [on |-> year_match, term |-> "year", w |-> 10],
              [on |-> set_match /\ set_terms # {}, term |-> "set", w |-> 20],
              [on |-> variety_match, term |-> "variety", w |-> 10],
              [on |-> parallel_match, term |-> "parallel", w |-> 5],
              [on |-> numbering_match, term |-> "numbered", w |-> 10],
              [on |-> grade_match /\ context.grade_terms # {}, term |-> "grade", w |-> 10],
              [on |-> context.autograph /\ auto_match, term |-> "autograph", w |-> 8]>>
        checks ==
            <<[fails |-> filters.require_player /\ ~player_match, reason |-> "Missing player name"],
              [fails |-> filters.require_year /\ year_value # Empty /\ ~year_match,
               reason |-> "Missing year"],
              [fails |-> filters.require_set /\ set_terms # {} /\ ~set_match,
               reason |-> "Missing set/brand"],
              [fails |-> filters.require_numbering /\ numbered_term # Empty /\ ~numbering_match,
               reason |-> "Missing numbering"],
              [fails |-> filters.require_grade /\ context.grade_terms # {} /\ ~grade_match,
               reason |-> "Missing grade mention"],
              [fails |-> filters.require_single_card /\ LooksLikeMultiListing(title),
               reason |-> "Appears to be multi-card listing"],
              [fails |-> \E phrase \in combined_excludes : Contains(title, phrase),
               reason |-> "Excluded keyword present"],
              [fails |-> ~item.image_url, reason |-> "Missing image"]>>
        matched == SelectSeq(facets, LAMBDA f : f.on)
        failed == SelectSeq(checks, LAMBDA c : c.fails)
        raw == SumSeq([i \in DOMAIN matched |-> matched[i].w])
        passes == failed = <<>>
        score == IF passes THEN raw ELSE Max(0, raw - 20)
    IN  [match_score |-> score,
         confidence |-> IF ~passes THEN "rejected"
                        ELSE IF score >= 70 THEN "high"
                        ELSE IF score >= 40 THEN "medium" ELSE "low",
         matched_terms |-> [i \in DOMAIN matched |-> matched[i].term],
         rejection_reasons |->
             {failed[i].reason : i \in DOMAIN failed}
             \cup (IF context.autograph /\ ~auto_match THEN {"Autograph not mentioned"} ELSE {}),
         passes |-> passes]


-----------------------------------------------------------------------------
(* Specification of the scorers: one listing is scored against one card *)

ScoreTitles ==
    { <<"1993", "Topps", "Derek", "Jeter", "#", "98", "Baseball", "Card", "PSA", "10">>,
      <<"1993", "TOPPS", "JETER", "#", "98">>,
      <<"1993", "Topps", "Ken", "Griffey">>,
      <<"Derek", "Jeter", "1993", "Topps", "Gold", "Refractor", "/", "49", "PSA", "10", "auto">>,
      <<"Lot", "of", "1993", "Topps", "Derek", "Jeter", "cards">>,
      <<"Lot", "of", "1993", "Topps", "Derek", "Jeter", "#", "98">>,
      <<"Derek", "Jeter", "rookie">>,
      <<"Topps", "Derek", "Jeter", "#", "98">>,
      <<"1993", "Topps", "Jeter", "rookie">> }

ScoreCards ==
    { BaseArgs,
      [BaseArgs EXCEPT !.variety = <<"Gold">>, !.parallel = <<"Refractor">>,
                       !.numbered = <<"05", "/", "49">>, !.graded = <<"PSA", "10">>,
                       !.autograph = TRUE],
      [BaseArgs EXCEPT !.year = Empty, !.brand = Empty, !.card_number = Empty],
      [BaseArgs EXCEPT !.player_name = Griffey, !.card_number = Empty],
      [BaseArgs EXCEPT !.brand = <<"Topps", "Chrome">>] }

ScoreFilters ==
    [require_player : BOOLEAN, require_year : BOOLEAN, require_set : BOOLEAN,
     require_single_card : BOOLEAN, require_numbering : BOOLEAN, require_grade : BOOLEAN,
     exclude_phrases : {{}}]

InitScore ==
    /\ today = 0
    /\ now = 0
    /\ reqFile = [date |-> 0, count |-> 0]
    /\ cache = NoCache
    /\ tokenCache = [access_token |-> "None", expires_at |-> NoneTime]
    /\ log = <<>>
    /\ stack = <<>>
    /\ outcome = NoOutcome
    /\ obs = [prev |-> NoOutcome, quiet |-> FALSE, file0 |-> [date |-> 0, count |-> 0],
              cache0 |-> NoCache, token0 |-> [access_token |-> "None", expires_at |-> NoneTime],
              log0 |-> 0, calls |-> <<>>, tokenRequests |-> 0, retries |-> 0, maxDepth |-> 0,
              inner |-> <<>>]
    /\ nLookups = 0
    /\ sc \in [phase : {"in"}, title : ScoreTitles, image_url : BOOLEAN, card : ScoreCards,
               filters : ScoreFilters]

\* the listing goes through _filter_by_relevance (pricing path) and through
\* evaluate_listings / analyze_listing (image search)
ScoreListing ==
    /\ sc.phase = "in"
    /\ LET card == sc.card
           item == [title |-> sc.title, price |-> 1000, image_url |-> sc.image_url]
           frac == ScoreResultRelevance(item, card.year, card.brand, card.player_name,
                                        card.card_number)
           kept == FilterByRelevance(<<item>>, card.year, card.brand, card.player_name,
                                     card.card_number, min_score)
       IN  sc' = [phase |-> "out", title |-> sc.title, image_url |-> sc.image_url,
                  card |-> card, filters |-> sc.filters,
                  frac |-> frac, accepted |-> kept # <<>>,
                  analysis |-> AnalyzeListing(item, sc.filters, BuildCardContext(card))]
    /\ UNCHANGED <<today, now, reqFile, cache, tokenCache, log, stack, outcome, obs, nLookups>>

NextScore == ScoreListing

SpecScore == InitScore /\ [][NextScore]_vars

\* the title has neither the subject's full name nor the subject's last name
SubjectMissing(title, player_name) ==
    LET t == LowerText(title)
        p == LowerText(player_name)
    IN  /\ p # Empty
        /\ ~Contains(t, p)
        /\ ~Contains(t, <<p[Len(p)]>>)

\* C10 (as claimed): a listing whose title has neither the full name nor the last name
\* gets score 0 and verdict reject from both scorers, whatever the filters.
C10_SubjectMissingScoresZero ==
    (sc.phase = "out" /\ SubjectMissing(sc.title, sc.card.player_name)) =>
        /\ sc.frac = 0
        /\ ~sc.accepted
        /\ sc.analysis.match_score = 0
        /\ ~sc.analysis.passes

\* C10 (amended): such a listing gets 0.0 from _score_result_relevance and is dropped by
\* the relevance filter; analyze_listing gives no credit for the subject and rejects the
\* listing with reason "Missing player name" whenever require_player is set, its score
\* being lowered by 20 and floored at 0.
C10_SubjectMissingRejected ==
    (sc.phase = "out" /\ SubjectMissing(sc.title, sc.card.player_name)) =>
        /\ sc.frac = 0
        /\ ~sc.accepted
        /\ sc.analysis.match_score >= 0
        /\ \A i \in DOMAIN sc.analysis.matched_terms : sc.analysis.matched_terms[i] # "player"
        /\ sc.filters.require_player =>
              /\ ~sc.analysis.passes
              /\ sc.analysis.confidence = "rejected"
              /\ "Missing player name" \in sc.analysis.rejection_reasons

C10_Witness ==
    /\ sc.phase = "out"
    /\ SubjectMissing(sc.title, sc.card.player_name)
    /\ Contains(LowerText(sc.title), sc.card.year) /\ sc.card.year # Empty
    /\ Contains(LowerText(sc.title), LowerText(sc.card.brand)) /\ sc.card.brand # Empty
    /\ sc.filters.require_player
    /\ sc.frac = 0
    /\ sc.analysis.match_score > 0
    /\ ~sc.analysis.passes

-----------------------------------------------------------------------------
(* Year and brand facets *)

ScTitle == LowerText(sc.title)
SubjectFound == ~SubjectMissing(sc.title, sc.card.player_name)
YearMissing == sc.card.year # Empty /\ ~Contains(ScTitle, sc.card.year)
BrandMissing == sc.card.brand # Empty /\ ~Contains(ScTitle, LowerText(sc.card.brand))
YearSatisfied == sc.card.year = Empty \/ Contains(ScTitle, sc.card.year)
BrandSatisfied == sc.card.brand = Empty \/ Contains(ScTitle, LowerText(sc.card.brand))
NoBrandToken == \A term \in TokenizeTerms(sc.card.brand) : ~Contains(ScTitle, term)

\* C11 (as claimed): a listing whose title lacks a supplied year or a supplied brand is
\* rejected by both scorers; a facet the descriptor does not supply rejects nothing.
C11_YearBrandMandatory ==
    sc.phase = "out" =>
        /\ (YearMissing \/ BrandMissing) => (~sc.accepted /\ ~sc.analysis.passes)
        /\ sc.card.year = Empty => "Missing year" \notin sc.analysis.rejection_reasons
        /\ sc.card.brand = Empty => "Missing set/brand" \notin sc.analysis.rejection_reasons

\* C11 (amended): _score_result_relevance gives 0.0 to a listing whose title lacks a
\* supplied year or a supplied brand, and the relevance filter drops it; analyze_listing
\* rejects for the year only when require_year is set, and for the brand only when
\* require_set is set and the title has none of the brand's tokens; a facet the descriptor
\* does not supply rejects nothing in either scorer.
C11_YearBrandWhenRequired ==
    sc.phase = "out" =>
        /\ (YearMissing \/ BrandMissing) => (sc.frac = 0 /\ ~sc.accepted)
        /\ "Missing year" \in sc.analysis.rejection_reasons
              <=> (sc.filters.require_year /\ YearMissing)
        /\ "Missing set/brand" \in sc.analysis.rejection_reasons
              <=> (sc.filters.require_set /\ sc.card.brand # Empty /\ NoBrandToken)
        /\ (sc.card.year = Empty /\ SubjectFound /\ BrandSatisfied) => sc.accepted
        /\ (sc.card.brand = Empty /\ SubjectFound /\ YearSatisfied) => sc.accepted

C11_Witness ==
    /\ sc.phase = "out"
    /\ SubjectFound
    /\ YearMissing
    /\ BrandSatisfied
    /\ sc.filters.require_year
    /\ sc.frac = 0
    /\ ~sc.accepted
    /\ ~sc.analysis.passes
    /\ "Missing year" \in sc.analysis.rejection_reasons

-----------------------------------------------------------------------------
(* Numbering facet *)

ScNumberedTerm == BuildCardContext(sc.card).numbered_term
NumberingInTitle ==
    ScNumberedTerm # Empty
    /\ (Contains(ScTitle, ScNumberedTerm) \/ Contains(ScTitle, <<"#">> \o ScNumberedTerm))
ItemNumberInTitle == sc.card.card_number # Empty /\ Contains(ScTitle, sc.card.card_number)
\* the verdict of analyze_listing on the same listing with the print run added to its title
AnalysisWithNumbering ==
    AnalyzeListing([title |-> sc.title \o ScNumberedTerm, price |-> 1000,
                    image_url |-> sc.image_url],
                   sc.filters, BuildCardContext(sc.card))

\* C12 (as claimed): a listing that satisfies the subject, year and brand facets is accepted
\* by the relevance filter, and no scorer ever rejects a listing for the absence of the
\* descriptor's number from the title.
C12_NumberingBonusOnly ==
    sc.phase = "out" =>
        /\ (SubjectFound /\ YearSatisfied /\ BrandSatisfied) => sc.accepted
        /\ "Missing numbering" \notin sc.analysis.rejection_reasons
        /\ AnalysisWithNumbering.passes = sc.analysis.passes

\* C12 (amended): in _score_result_relevance the item number is a bonus only, so a listing
\* that satisfies the subject, year and brand facets is kept by the relevance filter with or
\* without the number; analyze_listing never looks at the item number, and rejects for the
\* absence of the serial numbering exactly when require_numbering is set (as
\* default_filters_for_card does for a serial-numbered card) and the title lacks the print
\* run; with require_numbering off the verdict is the same with or without the print run.
C12_NumberingBonusUnlessRequired ==
    sc.phase = "out" =>
        /\ (SubjectFound /\ YearSatisfied /\ BrandSatisfied) =>
              (sc.accepted /\ sc.frac >= min_score)
        /\ "Missing numbering" \in sc.analysis.rejection_reasons
              <=> (sc.filters.require_numbering /\ ScNumberedTerm # Empty /\ ~NumberingInTitle)
        /\ ~sc.filters.require_numbering =>
              AnalysisWithNumbering.passes = sc.analysis.passes
        /\ sc.analysis = AnalyzeListing([title |-> sc.title, price |-> 1000,
                                         image_url |-> sc.image_url], sc.filters,
                                        BuildCardContext([sc.card EXCEPT !.card_number = Empty]))

C12_Witness ==
    /\ sc.phase = "out"
    /\ SubjectFound /\ YearSatisfied /\ BrandSatisfied
    /\ sc.card.card_number # Empty /\ ~ItemNumberInTitle
    /\ ScNumberedTerm # Empty /\ ~NumberingInTitle
    /\ ~sc.filters.require_numbering
    /\ sc.accepted
    /\ sc.frac = min_score
    /\ sc.analysis.passes

-----------------------------------------------------------------------------
(* Multi-item listings *)

MultiItemTitle == LooksLikeMultiListing(ScTitle)

\* C13 (as claimed): a listing whose title has a multi-item phrase is rejected unless the
\* descriptor's item number is in the title, and then it is not rejected on that basis; with
\* no item number on the descriptor every multi-item listing is rejected.
C13_MultiItemRejected ==
    (sc.phase = "out" /\ MultiItemTitle) =>
        /\ ~ItemNumberInTitle => (~sc.accepted /\ ~sc.analysis.passes)
        /\ ItemNumberInTitle =>
              "Appears to be multi-card listing" \notin sc.analysis.rejection_reasons

-----------------------------------------------------------------------------
(* Range of the scores *)

\* C14: the score of every scored listing lies in 0..100, and in 0.0..1.0 (0..10 tenths)
\* for the fractional scorer, whatever the descriptor, the title and the filters.
C14_ScoreInRange ==
    sc.phase = "out" =>
        /\ sc.frac \in 0..10
        /\ sc.analysis.match_score \in 0..100

-----------------------------------------------------------------------------
(* Ordering of the accepted listings: a list of listings goes through
   _filter_by_relevance and through evaluate_listings *)

MaxListings == 3

\* ImageSearchFilters()
ImageSearchFilters ==
    [require_player |-> TRUE, require_year |-> TRUE, require_set |-> TRUE,
     require_single_card |-> TRUE, require_numbering |-> FALSE, require_grade |-> FALSE,
     exclude_phrases |-> {}]

\* a sort that orders the approved listings by score only
InsertApprovedByScoreOnly(sorted, x) ==
    LET before == {i \in DOMAIN sorted : sorted[i].match_score >= x.match_score}
        k == Cardinality(before)
    IN  SubSeq(sorted, 1, k) \o <<x>> \o SubSeq(sorted, k + 1, Len(sorted))

RECURSIVE InsertApproved(_, _)
\* place of x in a list ordered by the key (-match_score, price or 0); equal keys keep
\* their arrival order
InsertApproved(sorted, x) ==
    IF sorted = <<>> THEN <<x>>
    ELSE IF \/ Head(sorted).match_score > x.match_score
            \/ /\ Head(sorted).match_score = x.match_score
               /\ Head(sorted).price <= x.price
         THEN <<Head(sorted)>> \o InsertApproved(Tail(sorted), x)
         ELSE <<x>> \o sorted

RECURSIVE SortApproved(_)
\* approved.sort(key=lambda entry: (-entry["match_score"], entry.get("price") or 0))
SortApproved(entries) ==
    IF entries = <<>> THEN <<>>
    ELSE InsertApproved(SortApproved(SubSeq(entries, 1, Len(entries) - 1)),
                        entries[Len(entries)])

\* main.evaluate_listings
EvaluateListings(items, card, filters) ==
    LET context == BuildCardContext(card)
        enriched == [i \in DOMAIN items |->
                        LET analysis == AnalyzeListing(items[i], filters, context)
                        IN  [title |-> items[i].title, price |-> items[i].price,
                             match_score |-> analysis.match_score,
                             passes |-> analysis.passes]]
        approved == SelectSeq(enriched, LAMBDA e : e.passes)
        rejected == SelectSeq(enriched, LAMBDA e : ~e.passes)
    IN  [approved |-> SortApproved(approved),
         rejected |-> rejected,
         total_raw |-> Len(items),
         rejected_count |-> Len(rejected)]

RankListings ==
    { [title |-> <<"1993", "Topps", "Derek", "Jeter", "#", "98">>, price |-> 3000,
       image_url |-> TRUE],
      [title |-> <<"1993", "Topps", "Derek", "Jeter", "#", "98">>, price |-> 2000,
       image_url |-> TRUE],
      [title |-> <<"1993", "Topps", "Derek", "Jeter", "#", "98", "PSA", "10">>, price |-> 1000,
       image_url |-> TRUE],
      [title |-> <<"1993", "Topps", "Jeter", "rookie">>, price |-> 500, image_url |-> TRUE] }

RankCards == {BaseArgs, [BaseArgs EXCEPT !.graded = <<"PSA", "10">>]}

InitRank ==
    /\ today = 0
    /\ now = 0
    /\ reqFile = [date |-> 0, count |-> 0]
    /\ cache = NoCache
    /\ tokenCache = [access_token |-> "None", expires_at |-> NoneTime]
    /\ log = <<>>
    /\ stack = <<>>
    /\ outcome = NoOutcome
    /\ obs = [prev |-> NoOutcome, quiet |-> FALSE, file0 |-> [date |-> 0, count |-> 0],
              cache0 |-> NoCache, token0 |-> [access_token |-> "None", expires_at |-> NoneTime],
              log0 |-> 0, calls |-> <<>>, tokenRequests |-> 0, retries |-> 0, maxDepth |-> 0,
              inner |-> <<>>]
    /\ nLookups = 0
    /\ \E card \in RankCards :
          sc \in [phase : {"in"}, items : SeqsUpTo(RankListings, MaxListings), card : {card},
                  filters : {ImageSearchFilters, DefaultFiltersForCard(card)}]

\* the listings go through _filter_by_relevance (pricing path) and evaluate_listings
RankStep ==
    /\ sc.phase = "in"
    /\ LET card == sc.card
       IN  sc' = [phase |-> "out", items |-> sc.items, card |-> card, filters |-> sc.filters,
                  scored |-> ScoredItems(sc.items, card.year, card.brand, card.player_name,
                                         card.card_number, min_score),
                  kept |-> FilterByRelevance(sc.items, card.year, card.brand,
                                             card.player_name, card.card_number, min_score),
                  evaluation |-> EvaluateListings(sc.items, card, sc.filters)]
    /\ UNCHANGED <<today, now, reqFile, cache, tokenCache, log, stack, outcome, obs, nLookups>>

NextRank == RankStep

SpecRank == InitRank /\ [][NextRank]_vars

ScoreDescending(list, score(_)) ==
    \A i, j \in DOMAIN list : i < j => score(list[i]) >= score(list[j])
TiesByPrice(list, score(_)) ==
    \A i, j \in DOMAIN list :
        (i < j /\ score(list[i]) = score(list[j])) => list[i].price <= list[j].price
MatchScoreOf(e) == e.match_score
RelevanceOf(e) == e.score

\* C15 (as claimed): the accepted listings of both paths are in descending score order,
\* equal scores in ascending price order, whatever the order of arrival.
C15_AcceptedOrder ==
    sc.phase = "out" =>
        /\ ScoreDescending(sc.evaluation.approved, MatchScoreOf)
        /\ TiesByPrice(sc.evaluation.approved, MatchScoreOf)
        /\ ScoreDescending(sc.kept, RelevanceOf)
        /\ TiesByPrice(sc.kept, RelevanceOf)

\* C15 (amended): the approved listings of evaluate_listings are in descending score
\* order, equal scores in ascending price order; the listings kept by
\* _filter_by_relevance are in descending score order only, listings of equal score
\* staying in the order in which the search returned them.
C15_ApprovedOrder ==
    sc.phase = "out" =>
        /\ ScoreDescending(sc.evaluation.approved, MatchScoreOf)
        /\ TiesByPrice(sc.evaluation.approved, MatchScoreOf)
        /\ Len(sc.evaluation.approved) + sc.evaluation.rejected_count = Len(sc.items)
        /\ ScoreDescending(sc.kept, RelevanceOf)
        /\ \A v \in 0..10 :
              SelectSeq(sc.kept, LAMBDA e : e.score = v)
                = SelectSeq(sc.scored, LAMBDA e : e.score = v)

C15_Witness ==
    /\ sc.phase = "out"
    /\ Len(sc.items) >= 2
    /\ sc.items[1].price > sc.items[2].price
    /\ Len(sc.evaluation.approved) >= 2
    /\ sc.evaluation.approved[1].match_score = sc.evaluation.approved[2].match_score
    /\ sc.evaluation.approved[1].price < sc.evaluation.approved[2].price
    /\ Len(sc.kept) >= 2
    /\ sc.kept[1].score = sc.kept[2].score
    /\ sc.kept[1].price > sc.kept[2].price

-----------------------------------------------------------------------------
(* The scenario of the 1993 Topps Derek Jeter #98 card *)

ScenarioTitle == <<"1993", "Topps", "Derek", "Jeter", "#", "98", "Baseball", "Card", "PSA", "10">>
ScenarioScored ==
    /\ sc.phase = "out"
    /\ sc.title = ScenarioTitle
    /\ sc.card = BaseArgs
    /\ sc.image_url
MatchedTerms == Range(sc.analysis.matched_terms)

\* C16 (as claimed): the listing "1993 Topps Derek Jeter #98 Baseball Card PSA 10" scored
\* against year 1993, brand Topps, subject Derek Jeter, item number 98 is accepted with
\* matched facets that include subject, year, brand, numbering and grade.
C16_ScenarioFacets ==
    ScenarioScored =>
        /\ sc.accepted
        /\ sc.analysis.passes
        /\ {"player", "year", "set", "numbered", "grade"} \subseteq MatchedTerms

\* C16 (amended): that listing is accepted by both scorers (1.0 from
\* _score_result_relevance; 65, confidence medium, from analyze_listing under every
\* filter setting) and its matched facets are exactly subject, year and brand: the
\* numbering and grade facets are reported only for a descriptor with serial numbering,
\* respectively a grade.
C16_ScenarioAccepted ==
    ScenarioScored =>
        /\ sc.accepted
        /\ sc.frac = 10
        /\ sc.analysis.passes
        /\ sc.analysis.matched_terms = <<"player", "year", "set">>
        /\ sc.analysis.match_score = 65
        /\ sc.analysis.confidence = "medium"
        /\ sc.analysis.rejection_reasons = {}

C16_Witness ==
    /\ ScenarioScored
    /\ sc.filters = DefaultFiltersForCard(BaseArgs)
    /\ sc.accepted
    /\ sc.analysis.passes
    /\ "grade" \notin MatchedTerms

-----------------------------------------------------------------------------
(* Price aggregation: a list of listings goes through _calculate_pricing *)

MaxPrices == 6

\* price values of the item summaries, in cents; 0 is a summary without a price value
PriceValues == {0, 500, 600, 700, 50000}

InitPrice ==
    /\ today = 0
    /\ now = 0
    /\ reqFile = [date |-> 0, count |-> 0]
    /\ cache = NoCache
    /\ tokenCache = [access_token |-> "None", expires_at |-> NoneTime]
    /\ log = <<>>
    /\ stack = <<>>
    /\ outcome = NoOutcome
    /\ obs = [prev |-> NoOutcome, quiet |-> FALSE, file0 |-> [date |-> 0, count |-> 0],
              cache0 |-> NoCache, token0 |-> [access_token |-> "None", expires_at |-> NoneTime],
              log0 |-> 0, calls |-> <<>>, tokenRequests |-> 0, retries |-> 0, maxDepth |-> 0,
              inner |-> <<>>]
    /\ nLookups = 0
    /\ sc \in [phase : {"in"}, prices : SeqsUpTo(PriceValues, MaxPrices)]

PriceStep ==
    /\ sc.phase = "in"
    /\ sc' = [phase |-> "out", prices |-> sc.prices,
              pricing |-> CalculatePricing([i \in DOMAIN sc.prices |->
                                              [title |-> ListingJeter.title,
                                               price |-> sc.prices[i]]])]
    /\ UNCHANGED <<today, now, reqFile, cache, tokenCache, log, stack, outcome, obs, nLookups>>

NextPrice == PriceStep

SpecPrice == InitPrice /\ [][NextPrice]_vars

ValidPrices == SelectSeq(sc.prices, LAMBDA p : p # 0)
ValidCount == Len(ValidPrices)
\* the multiset of valid prices below, at or above a value
CountBelow(v) == Cardinality({i \in DOMAIN ValidPrices : ValidPrices[i] < v})
CountUpTo(v) == Cardinality({i \in DOMAIN ValidPrices : ValidPrices[i] <= v})
\* the price of 0-based rank r among the valid prices in ascending order
PriceOfRank(r) == CHOOSE v \in Range(ValidPrices) : CountBelow(v) <= r /\ r < CountUpTo(v)
\* sum of the prices of ranks a up to but excluding b
RECURSIVE SumOfRanks(_, _)
SumOfRanks(a, b) == IF a >= b THEN 0 ELSE PriceOfRank(a) + SumOfRanks(a + 1, b)
ExamplePrices == <<500, 500, 600, 600, 700, 50000>>

\* C17: with n >= 4 valid prices the average is the mean of the prices of ranks n//4 up to
\* but excluding 3n//4 and sample_size is the size of that subset; with fewer than 4 the
\* average is over all of them; min, max and median are over all n prices; with no valid
\* price every field is null and count is 0. The prices 5, 5, 6, 6, 7, 500 give 5.67 over
\* 5, 6, 6 with min 5 and max 500.
C17_InterquartileAverage ==
    sc.phase = "out" =>
        LET n == ValidCount
            q1 == n \div 4
            q3 == (3 * n) \div 4
            pr == sc.pricing
        IN  /\ n = 0 => pr = [min_price |-> NonePrice, max_price |-> NonePrice,
                              avg_price |-> NonePrice, median_price |-> NonePrice,
                              count |-> 0]
            /\ n >= 1 =>
                  /\ pr.count = n
                  /\ pr.min_price = PriceOfRank(0)
                  /\ pr.max_price = PriceOfRank(n - 1)
                  /\ pr.median_price =
                        IF n % 2 = 0
                        THEN RoundCents(PriceOfRank(n \div 2 - 1) + PriceOfRank(n \div 2), 2)
                        ELSE PriceOfRank(n \div 2)
            /\ (n >= 1 /\ n < 4) =>
                  /\ pr.sample_size = n
                  /\ pr.avg_price = RoundCents(SumOfRanks(0, n), n)
            /\ n >= 4 =>
                  /\ pr.sample_size = q3 - q1
                  /\ pr.avg_price = RoundCents(SumOfRanks(q1, q3), q3 - q1)
            /\ sc.prices = ExamplePrices =>
                  (pr.avg_price = 567 /\ pr.min_price = 500 /\ pr.max_price = 50000)

C17_Witness ==
    /\ sc.phase = "out"
    /\ sc.prices = ExamplePrices
    /\ sc.pricing.avg_price = 567
    /\ sc.pricing.sample_size = 3
    /\ sc.pricing.min_price = 500
    /\ sc.pricing.max_price = 50000
    /\ sc.pricing.count = 6

-----------------------------------------------------------------------------
(* Query construction: a descriptor goes through the query builder of search_card *)

QueryBrands ==
    { Empty, <<"Topps">>, <<"Topps", "Chrome">>, <<"Topps", "Limited">>, <<"Upper", "Deck">>,
      <<"Donruss">>, <<"Donruss", "Optic">>, <<"Panini", "Prizm">>, <<"Prizm">> }

QueryArgs ==
    { [BaseArgs EXCEPT !.brand = b, !.card_number = c, !.variety = v, !.numbered = n] :
        b \in QueryBrands, c \in {Empty, <<"98">>}, v \in {Empty, <<"Gold">>},
        n \in {Empty, <<"05", "/", "49">>, <<"/", "49">>, <<"49">>} }

InitQuery ==
    /\ today = 0
    /\ now = 0
    /\ reqFile = [date |-> 0, count |-> 0]
    /\ cache = NoCache
    /\ tokenCache = [access_token |-> "None", expires_at |-> NoneTime]
    /\ log = <<>>
    /\ stack = <<>>
    /\ outcome = NoOutcome
    /\ obs = [prev |-> NoOutcome, quiet |-> FALSE, file0 |-> [date |-> 0, count |-> 0],
              cache0 |-> NoCache, token0 |-> [access_token |-> "None", expires_at |-> NoneTime],
              log0 |-> 0, calls |-> <<>>, tokenRequests |-> 0, retries |-> 0, maxDepth |-> 0,
              inner |-> <<>>]
    /\ nLookups = 0
    /\ sc \in [phase : {"in"}, a : QueryArgs]

\* lines 555-583 of search_card: the brand and variety terms in one of the orders
\* list(set) can give, then the query; and the query main.build_card_search_query
\* builds for the same card
BuildQuery ==
    /\ sc.phase = "in"
    /\ \E bt \in Orderings(BuildBrandTerms(sc.a.brand)),
          vt \in Orderings(BuildVarietyTerms(sc.a.variety)) :
          sc' = [phase |-> "out", a |-> sc.a, brand_terms |-> bt, variety_terms |-> vt,
                 query_parts |-> UniqueTerms(QueryParts(sc.a, bt, vt)),
                 query |-> FlattenTerms(UniqueTerms(QueryParts(sc.a, bt, vt))),
                 strategy_parts |-> StrategyParts(sc.a, "strict"),
                 strategy_query |-> BuildQueryForStrategy(sc.a, "strict")]
    /\ UNCHANGED <<today, now, reqFile, cache, tokenCache, log, stack, outcome, obs, nLookups>>

NextQuery == BuildQuery

SpecQuery == InitQuery /\ [][NextQuery]_vars

\* a term that carries the parent-manufacturer prefix without being the brand as given
PrefixedTerms ==
    {i \in DOMAIN sc.brand_terms :
        sc.brand_terms[i][1] = "Panini" /\ sc.brand_terms[i] # sc.a.brand}
OtherMakerBrand == sc.a.brand # Empty /\ Lower(sc.a.brand[1]) \in {"topps", "upper"}

\* C18: a term carrying the "Panini" prefix is added only for a brand of the known list
\* of Panini sub-brands; for a Topps or Upper Deck brand no term of the query carries the
\* prefix.
C18_PrefixOnlyForListedBrands ==
    sc.phase = "out" =>
        /\ PrefixedTerms # {} =>
              \E pb \in PANINI_BRANDS : Contains(LowerText(sc.a.brand), pb)
        /\ OtherMakerBrand =>
              /\ PrefixedTerms = {}
              /\ ~Contains(sc.query, <<"Panini">>)

-----------------------------------------------------------------------------
(* Token acquisition: the request handlers run search_card on worker threads, each
   calling _get_access_token on the token cache shared by all eBayService objects *)

MaxTokenCalls == 3
MaxClock == 7200

ClockStep == 900
Threads == {"a", "b"}

\* answers of the token endpoint: the outcomes above and a token of 35 minutes
TokenResponses == TokenOutcomes \cup {[ok |-> TRUE, expires_in |-> 2100]}

InitToken ==
    /\ today = 0
    /\ now = 0
    /\ reqFile = [date |-> 0, count |-> 0]
    /\ cache = NoCache
    /\ tokenCache = [access_token |-> "None", expires_at |-> NoneTime]
    /\ log = <<>>
    /\ stack = <<>>
    /\ outcome = NoOutcome
    /\ obs = [prev |-> NoOutcome, quiet |-> FALSE, file0 |-> [date |-> 0, count |-> 0],
              cache0 |-> NoCache, token0 |-> [access_token |-> "None", expires_at |-> NoneTime],
              log0 |-> 0, calls |-> <<>>, tokenRequests |-> 0, retries |-> 0, maxDepth |-> 0,
              inner |-> <<>>]
    /\ nLookups = 0
    /\ sc = [phase |-> "token", pc |-> [t \in Threads |-> "idle"],
             got |-> [t \in Threads |-> "none"], calls |-> 0, requests |-> 0,
             last |-> [at |-> NoneTime, life |-> 0]]

\* _get_access_token lines 465-487: the cache test, then either the cached token is
\* returned or requests.post is sent
TokenCheck(t) ==
    /\ sc.pc[t] = "idle"
    /\ sc.calls < MaxTokenCalls
    /\ IF TokenValid(tokenCache, now)
       THEN sc' = [sc EXCEPT !.pc[t] = "done", !.got[t] = "cached", !.calls = @ + 1]
       ELSE sc' = [sc EXCEPT !.pc[t] = "request", !.got[t] = "none", !.calls = @ + 1,
                             !.requests = @ + 1]
    /\ UNCHANGED <<today, now, reqFile, cache, tokenCache, log, stack, outcome, obs, nLookups>>

\* _get_access_token lines 494-520: the answer of the token endpoint arrives
TokenResponse(t) ==
    /\ sc.pc[t] = "request"
    /\ \E o \in TokenResponses :
          IF o.ok
          THEN /\ tokenCache' = [access_token |-> "token",
                                 expires_at |-> now + o.expires_in - TokenMargin]
               /\ sc' = [sc EXCEPT !.pc[t] = "done", !.got[t] = "fresh",
                                   !.last = [at |-> now, life |-> o.expires_in]]
          ELSE /\ tokenCache' = tokenCache
               /\ sc' = [sc EXCEPT !.pc[t] = "done", !.got[t] = "error"]
    /\ UNCHANGED <<today, now, reqFile, cache, log, stack, outcome, obs, nLookups>>

\* the handler finishes; the worker thread is free for another lookup
TokenReturn(t) ==
    /\ sc.pc[t] = "done"
    /\ sc' = [sc EXCEPT !.pc[t] = "idle"]
    /\ UNCHANGED <<today, now, reqFile, cache, tokenCache, log, stack, outcome, obs, nLookups>>

\* datetime.now() moves on
ClockTick ==
    /\ now + ClockStep <= MaxClock
    /\ now' = now + ClockStep
    /\ UNCHANGED <<today, reqFile, cache, tokenCache, log, stack, outcome, obs, nLookups, sc>>

NextToken ==
    \/ \E t \in Threads : TokenCheck(t)
    \/ \E t \in Threads : TokenResponse(t)
    \/ \E t \in Threads : TokenReturn(t)
    \/ ClockTick

SpecToken == InitToken /\ [][NextToken]_vars

\* a successful token request has been answered and its lifetime less the margin has not
\* elapsed
WithinLifetime == sc.last.at # NoneTime /\ now < sc.last.at + sc.last.life - TokenMargin

C20_SingleFlight ==
    sc.phase = "token" => Cardinality({t \in Threads : sc.pc[t] = "request"}) <= 1

-----------------------------------------------------------------------------
(* Rate counter under concurrent lookups: each worker thread runs the rate check, the
   search call and the counter increment of search_card on the shared counter file *)

MaxRateCalls == 6

\* the stored count at the start: three calls below the quota
RateStartCount == daily_limit - 3

\* the counter file between open(..., 'w') and json.dump: no date, no count
TruncatedFile == [date |-> -1, count |-> 0]

InitRate ==
    /\ today = 0
    /\ now = 0
    /\ reqFile = [date |-> 0, count |-> RateStartCount]
    /\ cache = NoCache
    /\ tokenCache = [access_token |-> "token", expires_at |-> DefaultExpiresIn - TokenMargin]
    /\ log = <<>>
    /\ stack = <<>>
    /\ outcome = NoOutcome
    /\ obs = [prev |-> NoOutcome, quiet |-> FALSE, file0 |-> [date |-> 0, count |-> 0],
              cache0 |-> NoCache, token0 |-> [access_token |-> "None", expires_at |-> NoneTime],
              log0 |-> 0, calls |-> <<>>, tokenRequests |-> 0, retries |-> 0, maxDepth |-> 0,
              inner |-> <<>>]
    /\ nLookups = 0
    /\ sc = [phase |-> "rate", pc |-> [t \in Threads |-> "idle"],
             local |-> [t \in Threads |-> 0], entered |-> 0, calls |-> 0, refused |-> 0,
             increments |-> 0]

\* search_card lines 604-622: _can_make_request reads the counter file
RateEnter(t) ==
    /\ sc.pc[t] = "idle"
    /\ sc.entered < MaxRateCalls
    /\ IF CanMakeRequest(GetRequestCount(reqFile, today))
       THEN sc' = [sc EXCEPT !.pc[t] = "call", !.entered = @ + 1]
       ELSE sc' = [sc EXCEPT !.refused = @ + 1, !.entered = @ + 1]
    /\ UNCHANGED <<today, now, reqFile, cache, tokenCache, log, stack, outcome, obs, nLookups>>

\* search_card lines 645-651: requests.get on the search endpoint
SearchCall(t) ==
    /\ sc.pc[t] = "call"
    /\ sc' = [sc EXCEPT !.pc[t] = "read", !.calls = @ + 1]
    /\ UNCHANGED <<today, now, reqFile, cache, tokenCache, log, stack, outcome, obs, nLookups>>

\* _increment_request_count line 311: count = self._get_request_count() + 1
IncrementRead(t) ==
    /\ sc.pc[t] = "read"
    /\ sc' = [sc EXCEPT !.pc[t] = "open", !.local[t] = GetRequestCount(reqFile, today) + 1]
    /\ UNCHANGED <<today, now, reqFile, cache, tokenCache, log, stack, outcome, obs, nLookups>>

\* _increment_request_count line 313: open(self.request_count_file, 'w') empties the file
IncrementOpen(t) ==
    /\ sc.pc[t] = "open"
    /\ reqFile' = TruncatedFile
    /\ sc' = [sc EXCEPT !.pc[t] = "dump"]
    /\ UNCHANGED <<today, now, cache, tokenCache, log, stack, outcome, obs, nLookups>>

\* _increment_request_count line 314: json.dump({'date': date_str, 'count': count}, f)
IncrementDump(t) ==
    /\ sc.pc[t] = "dump"
    /\ reqFile' = [date |-> today, count |-> sc.local[t]]
    /\ sc' = [sc EXCEPT !.pc[t] = "idle", !.increments = @ + 1]
    /\ UNCHANGED <<today, now, cache, tokenCache, log, stack, outcome, obs, nLookups>>

NextRate ==
    \/ \E t \in Threads : RateEnter(t)
    \/ \E t \in Threads : SearchCall(t)
    \/ \E t \in Threads : IncrementRead(t)
    \/ \E t \in Threads : IncrementOpen(t)
    \/ \E t \in Threads : IncrementDump(t)

SpecRate == InitRate /\ [][NextRate]_vars

RateQuiescent == \A t \in Threads : sc.pc[t] = "idle"

\* C21: with concurrent lookups no increment of the counter is lost (once every increment
\* has finished the stored count is the start count plus the calls made), and the calls of
\* the day exceed the quota by no more than the number of lookups that can be in flight
\* together.
C21_AtomicIncrement ==
    sc.phase = "rate" =>
        /\ RateQuiescent => GetRequestCount(reqFile, today) = RateStartCount + sc.calls
        /\ RateStartCount + sc.calls <= daily_limit + Cardinality(Threads)

-----------------------------------------------------------------------------
(* The two rate governors over days: eBayService keeps its count in a file that it reads
   at every check; RateLimiter (rate_limiter.py, used by ebay_api.eBayAPI) keeps its
   count in the memory of the process and loads the file only when it is constructed *)

MaxLimiterSteps == 3

DEFAULT_DAILY_LIMIT == 5000
WarningThresholdPercent == 80
ServiceWarningPercent == 90

\* counts at the start of the day: around the warning thresholds and the quota
LimiterCounts == {0, 3999, 4000, 4499, 4500, 4999, 5000}

\* a rate check that warns from 80% of the quota
CanMakeRequestLevelAt80(count) ==
    IF count >= daily_limit THEN "refused"
    ELSE IF count * 100 >= daily_limit * WarningThresholdPercent THEN "warning"
    ELSE "ok"

\* eBayService._can_make_request: refused, allowed with the "Warning: ..." message, or
\* allowed with the "OK (...)" message
CanMakeRequestLevel(count) ==
    IF count >= daily_limit THEN "refused"
    ELSE IF count * 100 >= daily_limit * ServiceWarningPercent THEN "warning"
    ELSE "ok"

\* RateLimiter._create_new_data
CreateNewData(day) == [date |-> day, count |-> 0]

\* RateLimiter._load_data
LoadData(file, day) == IF file.date # day THEN CreateNewData(day) ELSE file

\* RateLimiter.can_make_request; int(daily_limit * WARNING_THRESHOLD) is the floor
LimiterCanMakeRequest(data) ==
    IF data.count >= DEFAULT_DAILY_LIMIT THEN "refused"
    ELSE IF data.count >= (DEFAULT_DAILY_LIMIT * WarningThresholdPercent) \div 100 THEN "warning"
    ELSE "ok"

\* RateLimiter.record_request
RecordRequest(data) == [data EXCEPT !.count = @ + 1]

NoCheck == [level |-> "none", count |-> 0, first |-> FALSE]

InitLimiter ==
    /\ today = 0
    /\ now = 0
    /\ \E c \in LimiterCounts :
          /\ reqFile = [date |-> 0, count |-> c]
          /\ sc = [phase |-> "limiter", data |-> [date |-> 0, count |-> c],
                   file |-> [date |-> 0, count |-> c], steps |-> 0, op |-> "init",
                   service |-> NoCheck, limiter |-> NoCheck,
                   newDayService |-> FALSE, newDayLimiter |-> FALSE]
    /\ cache = NoCache
    /\ tokenCache = [access_token |-> "token", expires_at |-> DefaultExpiresIn - TokenMargin]
    /\ log = <<>>
    /\ stack = <<>>
    /\ outcome = NoOutcome
    /\ obs = [prev |-> NoOutcome, quiet |-> FALSE, file0 |-> [date |-> 0, count |-> 0],
              cache0 |-> NoCache, token0 |-> [access_token |-> "None", expires_at |-> NoneTime],
              log0 |-> 0, calls |-> <<>>, tokenRequests |-> 0, retries |-> 0, maxDepth |-> 0,
              inner |-> <<>>]
    /\ nLookups = 0

\* search_card lines 604-656 on a cache miss: the rate check, then, if allowed, the search
\* call and the increment
ServiceRequest ==
    /\ sc.steps < MaxLimiterSteps
    /\ LET count == GetRequestCount(reqFile, today)
           level == CanMakeRequestLevel(count)
       IN  /\ sc' = [sc EXCEPT !.steps = @ + 1, !.op = "service",
                               !.service = [level |-> level, count |-> count,
                                            first |-> sc.newDayService],
                               !.newDayService = FALSE]
           /\ reqFile' = IF CanMakeRequest(count)
                         THEN IncrementRequestCount(reqFile, today) ELSE reqFile
    /\ UNCHANGED <<today, now, cache, tokenCache, log, stack, outcome, obs, nLookups>>

\* eBayAPI._make_request lines 111-135: the rate check, then, if allowed, the request and
\* record_request (which saves the data)
LimiterRequest ==
    /\ sc.steps < MaxLimiterSteps
    /\ LET level == LimiterCanMakeRequest(sc.data)
           data == IF level # "refused" THEN RecordRequest(sc.data) ELSE sc.data
       IN  sc' = [sc EXCEPT !.steps = @ + 1, !.op = "limiter",
                            !.limiter = [level |-> level, count |-> sc.data.count,
                                         first |-> sc.newDayLimiter],
                            !.newDayLimiter = FALSE,
                            !.data = data,
                            !.file = IF level # "refused" THEN data ELSE sc.file]
    /\ UNCHANGED <<today, now, reqFile, cache, tokenCache, log, stack, outcome, obs, nLookups>>

\* the admin resets: main.reset_rate_limit and RateLimiter.reset
AdminReset ==
    /\ sc.steps < MaxLimiterSteps
    /\ reqFile' = [date |-> today, count |-> 0]
    /\ sc' = [sc EXCEPT !.steps = @ + 1, !.op = "reset", !.data = CreateNewData(today),
                        !.file = CreateNewData(today)]
    /\ UNCHANGED <<today, now, cache, tokenCache, log, stack, outcome, obs, nLookups>>

\* the process is restarted: the module-level RateLimiter() is constructed again
Restart ==
    /\ sc.steps < MaxLimiterSteps
    /\ sc' = [sc EXCEPT !.steps = @ + 1, !.op = "restart", !.data = LoadData(sc.file, today)]
    /\ UNCHANGED <<today, now, reqFile, cache, tokenCache, log, stack, outcome, obs, nLookups>>

\* midnight passes while the process keeps running
Midnight ==
    /\ today < MaxDay
    /\ today' = today + 1
    /\ sc' = [sc EXCEPT !.op = "midnight", !.newDayService = TRUE, !.newDayLimiter = TRUE]
    /\ UNCHANGED <<now, reqFile, cache, tokenCache, log, stack, outcome, obs, nLookups>>

NextLimiter ==
    \/ ServiceRequest
    \/ LimiterRequest
    \/ AdminReset
    \/ Restart
    \/ Midnight

SpecLimiter == InitLimiter /\ [][NextLimiter]_vars

\* C22: the first rate check after a day boundary sees a count of 0 whatever the count of
\* the day before, with no restart and no admin reset; between day boundaries and admin
\* resets the count never decreases.
C22_ResetAtDayBoundary ==
    /\ [](sc.phase = "limiter" =>
            /\ sc.service.first => sc.service.count = 0
            /\ sc.limiter.first => sc.limiter.count = 0)
    /\ [][(today' = today /\ sc'.op # "reset") =>
            /\ GetRequestCount(reqFile', today') >= GetRequestCount(reqFile, today)
            /\ sc'.data.count >= sc.data.count]_vars

-----------------------------------------------------------------------------
(* Warning threshold of the rate check *)

\* the level the claim gives for a count: below 90% of the quota, from 90%, from 100%
LevelAt90(count) ==
    IF count >= 5000 THEN "refused" ELSE IF count >= 4500 THEN "warning" ELSE "ok"

\* C23 (as claimed): the rate check allows with a plain OK message below 90% of the quota,
\* allows with a warning from 90% and below 100%, and refuses from 100%.
C23_WarningAt90Percent ==
    sc.phase = "limiter" =>
        /\ sc.service.level # "none" => sc.service.level = LevelAt90(sc.service.count)
        /\ sc.limiter.level # "none" => sc.limiter.level = LevelAt90(sc.limiter.count)

\* C23 (amended): eBayService._can_make_request allows with an OK message below 90% of
\* the quota, allows with a warning from 90% and below 100%, and refuses from 100%;
\* RateLimiter.can_make_request does the same with its warning from 80% of the quota.
C23_WarningAt90And80Percent ==
    sc.phase = "limiter" =>
        /\ sc.service.level # "none" => sc.service.level = LevelAt90(sc.service.count)
        /\ sc.limiter.level # "none" =>
              sc.limiter.level = IF sc.limiter.count >= 5000 THEN "refused"
                                 ELSE IF sc.limiter.count >= 4000 THEN "warning"
                                 ELSE "ok"

C23_Witness ==
    /\ sc.phase = "limiter"
    /\ sc.service.level = "warning" /\ sc.service.count = 4500
    /\ sc.limiter.level = "warning" /\ sc.limiter.count \in 4000..4499

-----------------------------------------------------------------------------
(* Failure of the token request *)

\* the messages of the errors _get_access_token raises
TokenFailures == {o.error : o \in {r \in TokenOutcomes : ~r.ok}}
TokenFailed == TopRet.kind = "error" /\ TopRet.error \in TokenFailures

-----------------------------------------------------------------------------
(* Batch price check of the tracked cards (main.check_tracked_prices) *)

MaxTracked == 4

TrackedLimit == 20

\* what one card's iteration can meet: a result of search_card, one of its eBayOAuthError
\* failures (auth, rate limit, search), or another exception (for instance from db.commit)
BatchOutcomes ==
    { [ok |-> TRUE, kind |-> "result"],
      [ok |-> FALSE, kind |-> "auth"],
      [ok |-> FALSE, kind |-> "rate limit"],
      [ok |-> FALSE, kind |-> "network"],
      [ok |-> FALSE, kind |-> "unexpected"] }

\* an iteration that leaves the loop at the first failure
BatchItemAborting(b, o) ==
    LET card == b.cards[b.idx]
    IN  IF o.ok
        THEN [b EXCEPT !.idx = @ + 1, !.attempted = Append(@, card),
                       !.results = Append(@, [card_id |-> card, success |-> TRUE]),
                       !.successful = @ + 1]
        ELSE [b EXCEPT !.idx = Len(b.cards) + 1, !.attempted = Append(@, card),
                       !.errors = Append(@, [card_id |-> card, kind |-> o.kind]),
                       !.failed = @ + 1]

\* one iteration of the loop of check_tracked_prices, lines 1514-1583
BatchItem(b, o) ==
    LET card == b.cards[b.idx]
    IN  IF o.ok
        THEN [b EXCEPT !.idx = @ + 1, !.attempted = Append(@, card),
                       !.results = Append(@, [card_id |-> card, success |-> TRUE]),
                       !.successful = @ + 1]
        ELSE [b EXCEPT !.idx = @ + 1, !.attempted = Append(@, card),
                       !.errors = Append(@, [card_id |-> card, kind |-> o.kind]),
                       !.failed = @ + 1]

NoResponse == [total_cards |-> -1]

InitBatch ==
    /\ today = 0
    /\ now = 0
    /\ reqFile = [date |-> 0, count |-> 0]
    /\ cache = NoCache
    /\ tokenCache = [access_token |-> "None", expires_at |-> NoneTime]
    /\ log = <<>>
    /\ stack = <<>>
    /\ outcome = NoOutcome
    /\ obs = [prev |-> NoOutcome, quiet |-> FALSE, file0 |-> [date |-> 0, count |-> 0],
              cache0 |-> NoCache, token0 |-> [access_token |-> "None", expires_at |-> NoneTime],
              log0 |-> 0, calls |-> <<>>, tokenRequests |-> 0, retries |-> 0, maxDepth |-> 0,
              inner |-> <<>>]
    /\ nLookups = 0
    /\ \E n \in 0..MaxTracked :
          sc = [phase |-> "batch", cards |-> [i \in 1..Min(n, TrackedLimit) |-> i], idx |-> 1,
                attempted |-> <<>>, outcomes |-> <<>>, results |-> <<>>, errors |-> <<>>,
                successful |-> 0, failed |-> 0, response |-> NoResponse]

\* lines 1492-1499: no tracked card
BatchEmpty ==
    /\ sc.phase = "batch"
    /\ sc.cards = <<>>
    /\ sc' = [sc EXCEPT !.phase = "returned",
                        !.response = [total_cards |-> 0, successful |-> 0, failed |-> 0,
                                      results |-> <<>>,
                                      errors |-> <<[card_id |-> 0, kind |-> "no tracked cards"]>>]]
    /\ UNCHANGED <<today, now, reqFile, cache, tokenCache, log, stack, outcome, obs, nLookups>>

\* lines 1501-1505: the service cannot be constructed, the endpoint answers HTTP 500
BatchInitFails ==
    /\ sc.phase = "batch"
    /\ sc.cards # <<>>
    /\ sc.attempted = <<>>
    /\ sc' = [sc EXCEPT !.phase = "http 500"]
    /\ UNCHANGED <<today, now, reqFile, cache, tokenCache, log, stack, outcome, obs, nLookups>>

\* lines 1512-1583: the next card of the loop
BatchNext ==
    /\ sc.phase = "batch"
    /\ sc.idx <= Len(sc.cards)
    /\ \E o \in BatchOutcomes :
          sc' = [BatchItem(sc, o) EXCEPT !.outcomes = Append(@, o.kind)]
    /\ UNCHANGED <<today, now, reqFile, cache, tokenCache, log, stack, outcome, obs, nLookups>>

\* lines 1588-1594: the loop is over
BatchReturn ==
    /\ sc.phase = "batch"
    /\ sc.cards # <<>>
    /\ sc.idx > Len(sc.cards)
    /\ sc' = [sc EXCEPT !.phase = "returned",
                        !.response = [total_cards |-> Len(sc.cards),
                                      successful |-> sc.successful, failed |-> sc.failed,
                                      results |-> sc.results, errors |-> sc.errors]]
    /\ UNCHANGED <<today, now, reqFile, cache, tokenCache, log, stack, outcome, obs, nLookups>>

NextBatch == BatchEmpty \/ BatchInitFails \/ BatchNext \/ BatchReturn

SpecBatch == InitBatch /\ [][NextBatch]_vars

FailedItems == {i \in DOMAIN sc.outcomes : sc.outcomes[i] # "result"}

\* C25: a failed lookup never ends the batch: on return every card has been attempted in
\* order, each failure has added one entry to errors, successful + failed = total_cards
\* and the number of results is successful.
C25_BatchContinues ==
    (sc.phase = "returned" /\ sc.cards # <<>>) =>
        /\ sc.attempted = sc.cards
        /\ sc.response.total_cards = Len(sc.cards)
        /\ sc.response.successful + sc.response.failed = sc.response.total_cards
        /\ Len(sc.response.results) = sc.response.successful
        /\ Len(sc.response.errors) = sc.response.failed
        /\ sc.response.failed = Cardinality(FailedItems)
        /\ {sc.response.errors[i].card_id : i \in DOMAIN sc.response.errors}
             = {sc.cards[i] : i \in FailedItems}

C25_Witness ==
    /\ sc.phase = "returned"
    /\ Len(sc.cards) >= 3
    /\ sc.outcomes[1] = "auth"
    /\ sc.outcomes[2] = "unexpected"
    /\ sc.outcomes[Len(sc.cards)] = "result"
    /\ sc.response.successful >= 1
    /\ sc.response.failed >= 2

-----------------------------------------------------------------------------
(* One lookup with the cache table and the call log failing, against the same lookup
   with both working *)

StoreCounts == {0, daily_limit - 1}

NoStores == [cache |-> NoCache, reqFile |-> [date |-> 0, count |-> 0],
             tokenCache |-> [access_token |-> "None", expires_at |-> NoneTime], log |-> <<>>]

FreshObs ==
    [prev |-> NoOutcome, quiet |-> FALSE, file0 |-> reqFile, cache0 |-> cache,
     token0 |-> tokenCache, log0 |-> Len(log), calls |-> <<>>, tokenRequests |-> 0,
     retries |-> 0, maxDepth |-> 1, inner |-> <<>>]

InitStore ==
    /\ today = 0
    /\ now = 0
    /\ reqFile \in {[date |-> 0, count |-> c] : c \in StoreCounts}
    /\ cache = NoCache
    /\ tokenCache = [access_token |-> "None", expires_at |-> NoneTime]
    /\ log = <<>>
    /\ stack = <<>>
    /\ outcome = NoOutcome
    /\ obs = [prev |-> NoOutcome, quiet |-> FALSE, file0 |-> [date |-> 0, count |-> 0],
              cache0 |-> NoCache, token0 |-> [access_token |-> "None", expires_at |-> NoneTime],
              log0 |-> 0, calls |-> <<>>, tokenRequests |-> 0, retries |-> 0, maxDepth |-> 0,
              inner |-> <<>>]
    /\ nLookups = 0
    /\ sc = [phase |-> "warm", s0 |-> NoStores, unreadable |-> {}, tape |-> <<>>,
             diverged |-> FALSE, d |-> BaseArgs, q |-> Empty, ref |-> NoRet, failed |-> {}]

\* an earlier lookup, with the stores working, fills the cache and the token cache
StoreWarm(d) ==
    /\ sc.phase = "warm"
    /\ Idle
    /\ nLookups = 0
    /\ \E q \in BuildQueries(d) : stack' = <<Frame(d, q)>>
    /\ nLookups' = 1
    /\ obs' = FreshObs
    /\ UNCHANGED <<today, now, reqFile, cache, tokenCache, log, outcome, sc>>

\* time passes before the lookup under test
StoreAdvance ==
    /\ sc.phase = "warm"
    /\ Advance

\* the reference run: search_card(d) with the stores working; the entries whose read
\* will fail in the other run are absent from its cache
StoreRef(d) ==
    /\ sc.phase = "warm"
    /\ Idle
    /\ \E q \in BuildQueries(d), U \in SUBSET (DOMAIN cache) :
          /\ stack' = <<Frame(d, q)>>
          /\ cache' = [k \in (DOMAIN cache) \ U |-> cache[k]]
          /\ sc' = [sc EXCEPT !.phase = "ref", !.d = d, !.q = q, !.unreadable = U,
                              !.s0 = [cache |-> cache, reqFile |-> reqFile,
                                      tokenCache |-> tokenCache, log |-> log]]
    /\ obs' = FreshObs
    /\ UNCHANGED <<today, now, reqFile, tokenCache, log, outcome, nLookups>>

\* the run under test: the same call from the same stores, with the same external answers
StoreReplay ==
    /\ sc.phase = "ref"
    /\ Idle
    /\ stack' = <<Frame(sc.d, sc.q)>>
    /\ cache' = sc.s0.cache
    /\ reqFile' = sc.s0.reqFile
    /\ tokenCache' = sc.s0.tokenCache
    /\ log' = sc.s0.log
    /\ sc' = [sc EXCEPT !.phase = "replay", !.ref = outcome.ret]
    /\ obs' = [FreshObs EXCEPT !.file0 = sc.s0.reqFile, !.cache0 = sc.s0.cache,
                               !.token0 = sc.s0.tokenCache, !.log0 = Len(sc.s0.log)]
    /\ UNCHANGED <<today, now, outcome, nLookups>>

NextStore ==
    \/ \E d \in Descriptors : StoreWarm(d)
    \/ StoreAdvance
    \/ \E d \in Descriptors : StoreRef(d)
    \/ StoreReplay
    \/ CacheCheck
    \/ RateCheck
    \/ GetToken
    \/ HttpCall
    \/ Return
    \/ Finish

SpecStore == InitStore /\ [][NextStore]_vars

ReplayFinished == sc.phase = "replay" /\ Idle

\* C26: a lookup in which reads of the cache, writes to the cache and writes to the call
\* log fail returns the same result or raises the same error as the same lookup with the
\* stores working (the cache entries whose read fails being absent), and it asks the
\* token endpoint and the search endpoint the same questions.
C26_StoreFailuresSwallowed ==
    ReplayFinished =>
        /\ outcome.ret = sc.ref
        /\ ~sc.diverged
        /\ sc.tape = <<>>

C26_Witness ==
    /\ ReplayFinished
    /\ sc.failed = {"read", "write", "log"}
    /\ outcome.ret.kind = "result"
    /\ outcome.ret = sc.ref

C26_WitnessError ==
    /\ ReplayFinished
    /\ "log" \in sc.failed
    /\ outcome.ret.kind = "error"
    /\ Len(obs.inner) > 0

-----------------------------------------------------------------------------
(* C27: the second broadening level *)

\* the strategy-1 retry of the top-level lookup returned a result without listings
Level1Empty ==
    \E i \in DOMAIN obs.inner :
        /\ obs.inner[i].via = "s1"
        /\ obs.inner[i].depth = 2
        /\ obs.inner[i].ret.kind = "result"
        /\ obs.inner[i].ret.result.total_results = 0

Level2Performed ==
    \E i \in DOMAIN obs.inner : obs.inner[i].via = "s2" /\ obs.inner[i].depth = 2

\* C27: when the first query and the retry without the print run both accept no listing
\* and the descriptor has a variety or a parallel, the lookup returns only after a retry
\* without variety and parallel has been made.
C27_Level2AfterEmptyLevel1 ==
    (Finished /\ Level1Empty /\ (TopArgs.variety # Empty \/ TopArgs.parallel # Empty))
        => Level2Performed

-----------------------------------------------------------------------------
(* The table ebay_search_cache, row by row, under the cache steps of two lookups *)

MaxCacheOps == 4

CacheQueries == {<<"1993", "Derek", "Jeter">>, <<"1993", "Ken", "Griffey">>}

\* result_data of a stored result
CacheData == {"r1", "r2"}

NoData == "None"

\* db.query(EbaySearchCache).filter(EbaySearchCache.search_query == query)
RowsOf(rows, query) == SelectSeq(rows, LAMBDA r : r.search_query = query)

\* a store that deletes nothing before it adds its row
DeleteNothing(rows, query) == rows

\* _cache_result lines 397-399: .filter(search_query == query).delete()
DeleteExisting(rows, query) == SelectSeq(rows, LAMBDA r : r.search_query # query)

\* db.delete(cache_entry): the row read by .first() is removed
DeleteFirst(rows, query) ==
    LET i == CHOOSE k \in DOMAIN rows :
                 rows[k].search_query = query /\ \A j \in 1..(k - 1) : rows[j].search_query # query
    IN  SubSeq(rows, 1, i - 1) \o SubSeq(rows, i + 1, Len(rows))

UpdateFirst(rows, query, entry) ==
    LET i == CHOOSE k \in DOMAIN rows :
                 rows[k].search_query = query /\ \A j \in 1..(k - 1) : rows[j].search_query # query
    IN  [rows EXCEPT ![i] = entry]

\* _get_cached_result lines 351-382 on the table: the rows afterwards and what is returned
GetCachedResult(rows, query, t) ==
    IF RowsOf(rows, query) = <<>>
    THEN [rows |-> rows, ret |-> NoData, event |-> "miss"]
    ELSE LET cache_entry == Head(RowsOf(rows, query))
         IN  IF CacheFresh(cache_entry, t)
             THEN [rows |-> UpdateFirst(rows, query, CacheHit(cache_entry)),
                   ret |-> cache_entry.result_data, event |-> "hit"]
             ELSE [rows |-> DeleteFirst(rows, query), ret |-> NoData, event |-> "expired"]

\* _cache_result lines 393-420 on the table; search_query is a unique column
\* (models.py line 77), so a commit that would leave two rows of one query raises and
\* the session's changes are lost
CacheResultRows(rows, query, result_data, t) ==
    LET kept == DeleteExisting(rows, query)
    IN  IF RowsOf(kept, query) # <<>>
        THEN rows
        ELSE Append(kept, [search_query |-> query, result_data |-> result_data,
                           expires_at |-> t + CacheTTL, hit_count |-> 0])

NoOp ==
    [op |-> "none", query |-> Empty, ret |-> NoData, event |-> "none", at |-> 0,
     found |-> NoneTime]

InitCache ==
    /\ today = 0
    /\ now = 0
    /\ reqFile = [date |-> 0, count |-> 0]
    /\ cache = NoCache
    /\ tokenCache = [access_token |-> "None", expires_at |-> NoneTime]
    /\ log = <<>>
    /\ stack = <<>>
    /\ outcome = NoOutcome
    /\ obs = [prev |-> NoOutcome, quiet |-> FALSE, file0 |-> [date |-> 0, count |-> 0],
              cache0 |-> NoCache, token0 |-> [access_token |-> "None", expires_at |-> NoneTime],
              log0 |-> 0, calls |-> <<>>, tokenRequests |-> 0, retries |-> 0, maxDepth |-> 0,
              inner |-> <<>>]
    /\ nLookups = 0
    /\ sc = [phase |-> "cache", rows |-> <<>>, pc |-> [t \in Threads |-> "idle"],
             query |-> [t \in Threads |-> Empty], ops |-> 0, last |-> NoOp, seen |-> {}]

\* search_card line 589: the cache check of a lookup
CacheGet(t, q) ==
    /\ sc.pc[t] = "idle"
    /\ sc.ops < MaxCacheOps
    /\ LET g == GetCachedResult(sc.rows, q, now)
       IN  sc' = [sc EXCEPT !.rows = g.rows,
                            !.pc[t] = IF g.ret # NoData THEN "idle" ELSE "miss",
                            !.query[t] = q,
                            !.ops = @ + 1,
                            !.last = [op |-> "get", query |-> q, ret |-> g.ret,
                                      event |-> g.event, at |-> now,
                                      found |-> IF RowsOf(sc.rows, q) = <<>> THEN NoneTime
                                                ELSE Head(RowsOf(sc.rows, q)).expires_at],
                            !.seen = @ \cup {g.event}]
    /\ UNCHANGED <<today, now, reqFile, cache, tokenCache, log, stack, outcome, obs, nLookups>>

\* search_card line 775: the lookup found listings and stores its result
CachePut(t, data) ==
    /\ sc.pc[t] = "miss"
    /\ sc' = [sc EXCEPT !.rows = CacheResultRows(sc.rows, sc.query[t], data, now),
                        !.pc[t] = "idle",
                        !.last = [op |-> "put", query |-> sc.query[t], ret |-> data,
                                  event |-> IF RowsOf(sc.rows, sc.query[t]) # <<>>
                                            THEN "replaced" ELSE "added",
                                  at |-> now, found |-> NoneTime],
                        !.seen = @ \cup {IF RowsOf(sc.rows, sc.query[t]) # <<>>
                                         THEN "replaced" ELSE "added"}]
    /\ UNCHANGED <<today, now, reqFile, cache, tokenCache, log, stack, outcome, obs, nLookups>>

\* the lookup ends without a result to store (no listing accepted, or an error)
CacheSkip(t) ==
    /\ sc.pc[t] = "miss"
    /\ sc' = [sc EXCEPT !.pc[t] = "idle"]
    /\ UNCHANGED <<today, now, reqFile, cache, tokenCache, log, stack, outcome, obs, nLookups>>

CacheTick ==
    /\ now + (CacheTTL \div 2) <= MaxTime
    /\ now' = now + (CacheTTL \div 2)
    /\ UNCHANGED <<today, reqFile, cache, tokenCache, log, stack, outcome, obs, nLookups, sc>>

NextCache ==
    \/ \E t \in Threads, q \in CacheQueries : CacheGet(t, q)
    \/ \E t \in Threads, data \in CacheData : CachePut(t, data)
    \/ \E t \in Threads : CacheSkip(t)
    \/ CacheTick

SpecCache == InitCache /\ [][NextCache]_vars

\* C28: the table never holds two rows of one query; right after a store the row of the
\* query is the stored result with hit counter 0 and expiry one hour after the store; a
\* cache check that finds a row whose expiry time has been reached removes it and
\* returns nothing, and data is returned only from a row that has not expired.
C28_OneFreshEntryPerQuery ==
    /\ \A q \in CacheQueries : Len(RowsOf(sc.rows, q)) <= 1
    /\ sc.last.op = "put" =>
          RowsOf(sc.rows, sc.last.query) =
             <<[search_query |-> sc.last.query, result_data |-> sc.last.ret,
                expires_at |-> sc.last.at + CacheTTL, hit_count |-> 0]>>
    /\ (sc.last.op = "get" /\ sc.last.found # NoneTime /\ sc.last.found <= sc.last.at) =>
          /\ RowsOf(sc.rows, sc.last.query) = <<>>
          /\ sc.last.ret = NoData
    /\ (sc.last.op = "get" /\ sc.last.ret # NoData) =>
          /\ sc.last.found > sc.last.at
          /\ Head(RowsOf(sc.rows, sc.last.query)).result_data = sc.last.ret

C28_Witness ==
    /\ sc.last.op = "get"
    /\ sc.last.found = sc.last.at
    /\ sc.last.ret = NoData
    /\ {"hit", "replaced"} \subseteq sc.seen

-----------------------------------------------------------------------------
(* C29: the numbering term of the two query builders *)

\* the denominator of the numbering strings of QueryArgs: their last part
Denominator(numbered) == numbered[Len(numbered)]

\* the numbering term among the parts of search_card's query
SearchNumberingTerms ==
    {sc.query_parts[i] : i \in {k \in DOMAIN sc.query_parts :
        sc.query_parts[k] \in {sc.a.numbered, <<"/", Denominator(sc.a.numbered)>>}}}

\* the numbering term among the parts of build_query_for_strategy's query
StrategyNumberingTerms ==
    {sc.strategy_parts[i] : i \in {k \in DOMAIN sc.strategy_parts :
        sc.strategy_parts[k] \in {sc.a.numbered, <<"/", Denominator(sc.a.numbered)>>}}}

\* C29: for a descriptor with serial numbering, the term search_card adds to its query is
\* the denominator form "/D" and nothing else of the numbering string, and
\* build_query_for_strategy adds the same term.
C29_DenominatorFormOnly ==
    (sc.phase = "out" /\ sc.a.numbered # Empty) =>
        /\ SearchNumberingTerms = {<<"/", Denominator(sc.a.numbered)>>}
        /\ StrategyNumberingTerms = SearchNumberingTerms

-----------------------------------------------------------------------------
(* get_average_price: the call of search_card it makes, and what it gives back *)

\* Python values of different types, for the binding of positional arguments
PyNone == [type |-> "none"]
PyStr(t) == [type |-> "str", v |-> t]
PyInt(n) == [type |-> "int", v |-> n]
PyBool(b) == [type |-> "bool", v |-> b]

\* truth value of an argument in `if variety:`
Truthy(x) ==
    \/ x.type = "str" /\ x.v # Empty
    \/ x.type = "int" /\ x.v # 0
    \/ x.type = "bool" /\ x.v

\* Python None in card_id
NoneId == 0

\* the parameters of search_card after self, in order, and their defaults
SearchCardParams ==
    <<"year", "brand", "player_name", "card_number", "variety", "parallel", "autograph",
      "graded", "numbered", "card_id", "manual_query", "_is_broadening">>

SearchCardDefaults ==
    [card_number |-> PyNone, variety |-> PyNone, parallel |-> PyNone,
     autograph |-> PyBool(FALSE), graded |-> PyNone, numbered |-> PyNone, card_id |-> PyNone,
     manual_query |-> PyNone, _is_broadening |-> PyBool(FALSE)]

\* a call search_card(v1, ..., vn) with positional arguments only
BindPositional(values) ==
    [p \in Range(SearchCardParams) |->
        IF \E i \in DOMAIN values : SearchCardParams[i] = p
        THEN values[CHOOSE i \in DOMAIN values : SearchCardParams[i] = p]
        ELSE SearchCardDefaults[p]]

\* get_average_price line 930: self.search_card(year, brand, player_name, card_number, card_id)
AveragePriceCall(year, brand, player_name, card_number, card_id) ==
    BindPositional(<<year, brand, player_name, card_number, card_id>>)

PyText(x) == IF x.type = "str" THEN x.v ELSE Empty

\* _build_variety_terms line 184: variety.lower() on a value that is not a string
VarietyRaises(b) == Truthy(b.variety) /\ b.variety.type # "str"

\* the arguments as the lookup steps read them
BoundArgs(b) ==
    [year |-> PyText(b.year), brand |-> PyText(b.brand), player_name |-> PyText(b.player_name),
     card_number |-> PyText(b.card_number), variety |-> PyText(b.variety),
     parallel |-> PyText(b.parallel), autograph |-> Truthy(b.autograph),
     graded |-> PyText(b.graded), numbered |-> PyText(b.numbered),
     card_id |-> IF b.card_id.type = "int" THEN b.card_id.v ELSE NoneId,
     manual_query |-> PyText(b.manual_query), is_broadening |-> Truthy(b._is_broadening)]

\* get_average_price lines 937-945: the dict returned for a caught eBayOAuthError
ErrorPricing(e) ==
    [min_price |-> NonePrice, max_price |-> NonePrice, avg_price |-> NonePrice, count |-> 0,
     error |-> e]

AverageCards ==
    [year : {<<"1993">>}, brand : {<<"Topps">>}, player_name : {Jeter, Griffey},
     card_number : {PyNone, PyStr(<<"98">>)}, card_id : {PyNone, PyInt(1)}]

InitAverage ==
    /\ today = 0
    /\ now = 0
    /\ reqFile \in {[date |-> 0, count |-> c] : c \in InitCounts}
    /\ cache = NoCache
    /\ tokenCache = [access_token |-> "None", expires_at |-> NoneTime]
    /\ log = <<>>
    /\ stack = <<>>
    /\ outcome = NoOutcome
    /\ obs = [prev |-> NoOutcome, quiet |-> FALSE, file0 |-> [date |-> 0, count |-> 0],
              cache0 |-> NoCache, token0 |-> [access_token |-> "None", expires_at |-> NoneTime],
              log0 |-> 0, calls |-> <<>>, tokenRequests |-> 0, retries |-> 0, maxDepth |-> 0,
              inner |-> <<>>]
    /\ nLookups = 0
    /\ \E c \in AverageCards :
          sc = [phase |-> "in", card |-> c, value |-> [min_price |-> NonePrice],
                raised |-> Empty]

\* get_card_price_oauth calls get_average_price, which calls search_card
AverageCall ==
    /\ sc.phase \in {"in", "returned"}
    /\ Idle
    /\ nLookups < MaxLookups
    /\ LET b == AveragePriceCall(PyStr(sc.card.year), PyStr(sc.card.brand),
                                 PyStr(sc.card.player_name), sc.card.card_number,
                                 sc.card.card_id)
       IN  IF VarietyRaises(b)
           THEN \* AttributeError leaves search_card and is not caught at line 937
                /\ sc' = [sc EXCEPT !.phase = "raised",
                                    !.raised = <<"AttributeError:", "'int' object has no attribute 'lower'">>]
                /\ UNCHANGED <<stack, obs>>
           ELSE /\ \E q \in BuildQueries(BoundArgs(b)) : stack' = <<Frame(BoundArgs(b), q)>>
                /\ sc' = [sc EXCEPT !.phase = "running"]
                /\ obs' = FreshObs
    /\ nLookups' = nLookups + 1
    /\ UNCHANGED <<today, now, reqFile, cache, tokenCache, log, outcome>>

\* get_average_price lines 931-945: the pricing of the result, or the error dict
AverageReturn ==
    /\ sc.phase = "running"
    /\ Idle
    /\ sc' = [sc EXCEPT !.phase = "returned",
                        !.value = IF outcome.ret.kind = "result"
                                  THEN outcome.ret.result.pricing
                                  ELSE ErrorPricing(outcome.ret.error)]
    /\ UNCHANGED <<today, now, reqFile, cache, tokenCache, log, stack, outcome, obs, nLookups>>

\* the lookup never broadens (no numbering, variety or parallel), so no retry returns
NextAverage ==
    \/ AverageCall
    \/ AverageReturn
    \/ CacheCheck
    \/ RateCheck
    \/ GetToken
    \/ HttpCall
    \/ Finish

SpecAverage == InitAverage /\ [][NextAverage]_vars

\* search_card(year, brand, player_name, card_number=..., card_id=...) for the card
ExpectedArgs ==
    [BaseArgs EXCEPT !.year = sc.card.year, !.brand = sc.card.brand,
                     !.player_name = sc.card.player_name,
                     !.card_number = PyText(sc.card.card_number),
                     !.card_id = IF sc.card.card_id.type = "int" THEN sc.card.card_id.v
                                 ELSE NoneId]

\* C30: get_average_price never raises; it runs search_card with the four facets and no
\* other term, the given card_id being the item id of every call-log record of the
\* lookup, and gives back the pricing of the result or, when the lookup failed, null
\* prices with count 0 and the error text.
C30_AveragePriceLookup ==
    /\ sc.phase # "raised"
    /\ sc.phase \in {"running", "returned"} =>
          /\ TopArgs = ExpectedArgs
          /\ \A i \in (obs.log0 + 1)..Len(log) : log[i].card_id = ExpectedArgs.card_id
    /\ sc.phase = "returned" =>
          sc.value = IF outcome.ret.kind = "result"
                     THEN outcome.ret.result.pricing
                     ELSE ErrorPricing(outcome.ret.error)

\* the calls without card_id behave as claimed
C30_WithoutCardId ==
    sc.card.card_id.type = "none" => C30_AveragePriceLookup

====
